---- MODULE Spec2Model ----
(***************************************************************************)
(* Model of the JSON-extraction / feasibility / execution pipeline of the  *)
(* artificialLabor repository (feasibility_checker.py, task_executor.py,   *)
(* proposal_generator.py, main.py).                                        *)
(*                                                                         *)
(* Texts are sequences of lexemes.  A lexeme is either a single character  *)
(* that the code inspects on its own ("{", "}", the double quote, the      *)
(* backslash, ",", ":", " ", a newline, a digit, ".") or a whole word      *)
(* ("is_feasible", "true", ...).  Every regular expression and every scan  *)
(* of the source is modelled on these sequences.                           *)
(***************************************************************************)
EXTENDS Integers, Sequences, FiniteSets, TLC

VARIABLES
    \* extraction of one response text (feasibility_checker.py 204-231)
    xpc,          \* position: "start", "extracted", "fixed", "parsed"
    text,         \* the response text
    embedded,     \* the JSON object the text was built around (<< >>: none)
    json_str,     \* result of _extract_json_balanced
    fixed_json,   \* json_str after the mechanical repairs
    loaded        \* outcome of json.loads: [ok, val]

scanVars == << xpc, text, embedded, json_str, fixed_json, loaded >>

VARIABLES
    \* one call of check_job_feasibility (feasibility_checker.py 38-150)
    apc,            \* position in the call
    job_reqs,       \* what job['requirements'] holds
    response_text,  \* the model's answer to the assessment prompt
    repair_text,    \* the model's answer to the repair prompt
    llm_calls,      \* calls of _call_local_llm so far
    repair_calls,   \* of which repair calls
    cand,           \* json_str after the mechanical repairs
    result,         \* what _extract_and_parse_json returned: [kind, pairs]
    raised_at,      \* where an exception was raised ("none": nowhere)
    assessment      \* the dict returned to the caller

assessVars == << apc, job_reqs, response_text, repair_text, llm_calls,
                 repair_calls, cand, result, raised_at, assessment >>

VARIABLES
    \* filter_feasible_jobs, generate_proposals_for_feasible_jobs and
    \* execute_all_tasks as main() chains them (main.py 72-129)
    ppc,                    \* position in main()
    min_confidence,         \* the threshold, in hundredths
    jobs_with_feasibility,  \* what check_all_jobs_feasibility returned
    job_idx,                \* index of the running loop
    feasible,               \* list built by filter_feasible_jobs
    jobs_with_proposals,    \* list built by generate_proposals_for_feasible_jobs
    jobs_to_execute,        \* the jobs execute_all_tasks selected
    results                 \* list built by execute_all_tasks

pipeVars == << ppc, min_confidence, jobs_with_feasibility, job_idx, feasible,
               jobs_with_proposals, jobs_to_execute, results >>

VARIABLES
    \* one call of _save_execution_outputs (task_executor.py 480-643)
    epc,               \* position in the call
    execute_script,    \* the script, as lines of lexemes
    pandas_importable, \* __import__('pandas') succeeds in the interpreter
    runs,              \* calls of subprocess.run on the script so far
    returncode,        \* exit code of the first run (-1: none yet)
    error_text,        \* stderr of the first run
    repaired_script,   \* result of _repair_script_errors
    retry_raised,      \* writing or installing for the retry raised
    script_success,
    script_error,      \* kind of the error message ("none": None)
    status,            \* execution_result['status']
    task_outcome,      \* how execute_task ended: "script", "blank", "raised"
    rec_success,       \* execution_result['execution']['success']
    rec_error,         \* kind of execution_result['execution']['error']
    run_outcome,       \* what the last subprocess.run did ("none": not called)
    stages             \* the stages completed so far, each with its script text

execVars == << epc, execute_script, pandas_importable, runs, returncode, error_text,
               repaired_script, retry_raised, script_success, script_error, status,
               task_outcome, rec_success, rec_error, run_outcome, stages >>

VARIABLES
    \* check_all_jobs_feasibility followed by execute_all_tasks over one
    \* list of jobs (feasibility_checker.py 447-481, task_executor.py
    \* 1409-1469)
    bpc,            \* position: "assess", "select", "task", "save", "returned"
    batch_n,        \* number of jobs in the list
    batch_idx,      \* index of the running loop
    assessments,    \* per job, in order: how check_job_feasibility ended
    to_execute,     \* the jobs (by number) that execute_all_tasks selected
    attempts,       \* the jobs for which execute_task was called, in order
    current_task,   \* how execute_task ended for the running job
    batch_results   \* list built by execute_all_tasks: [job, status]

batchVars == << bpc, batch_n, batch_idx, assessments, to_execute, attempts,
                current_task, batch_results >>

VARIABLES
    \* one call of execute_task (task_executor.py 300-413)
    tpc,            \* position: "start", "responded", "parsed", "extracted",
                    \* "raised", "returned"
    task_response,  \* the model's answer to the execution prompt
    task_raised,    \* where an exception was raised ("none": nowhere)
    parse_result,   \* what _parse_execution_response returned
    task_record     \* the execution_result returned to the caller

taskVars == << tpc, task_response, task_raised, parse_result, task_record >>

VARIABLES
    \* _fix_paths_in_script applied again and again to one script
    \* (task_executor.py 873-972)
    fpc,          \* position: "start", "fixed"
    fix_input,    \* the script before the last application
    fix_output,   \* the script after the last application
    fix_passes    \* number of applications so far

fixVars == << fpc, fix_input, fix_output, fix_passes >>

VARIABLES
    \* convert_text_to_json over one input file (text_to_json.py 344-427)
    cpc,          \* position: "start", "extract", "done"
    file_content,      \* the text of the input file
    built_from,   \* the parts the first posting of the file was built from
    job_texts,    \* what split_job_postings returned
    post_idx,     \* index of the running loop
    parsed_jobs          \* list built by convert_text_to_json (jobs)

postVars == << cpc, file_content, built_from, job_texts, post_idx, parsed_jobs >>

VARIABLES
    \* one call of generate_proposal (proposal_generator.py 13-149)
    gpc,               \* position: "start", "answered", "parsed", "returned"
    proposal_response, \* what llm.chat returned
    proposal_parsed,   \* the dict before the defaults, as <<key, value>> pairs
    proposal_from,     \* where the returned dict came from
    proposal_out       \* the dict returned, as <<key, value>> pairs

propVars == << gpc, proposal_response, proposal_parsed, proposal_from, proposal_out >>

VARIABLES
    \* the output directories of one run of execute_all_tasks
    \* (task_executor.py 1421-1438 and 485-487, 514-516, 634-641)
    dpc,         \* position: "saving", "done"
    run_titles,  \* the titles of the jobs to execute, in order
    save_idx,    \* index of the job _save_execution_outputs is called for next
    dir_files    \* per directory, the job whose execute.py and metadata.json it holds

dirVars == << dpc, run_titles, save_idx, dir_files >>

VARIABLES
    \* one invocation of the command line of pipeline.py (main 478-548,
    \* Pipeline.run 348-412)
    rpc,              \* position in main and Pipeline.run
    ad_extracted,     \* what Pipeline.parse returned
    ad_assessed,      \* what Pipeline.assess returned
    run_status,       \* result["status"] ("none": not set)
    executor_called,  \* Pipeline.execute has been called
    run_returned,     \* Pipeline.run has returned its result
    exit_code         \* exit code of the process (-1: still running)

runVars == << rpc, ad_extracted, ad_assessed, run_status, executor_called,
              run_returned, exit_code >>

VARIABLES
    \* the job dictionaries as objects, through check_all_jobs_feasibility,
    \* generate_proposals_for_feasible_jobs and execute_all_tasks
    hpc,            \* the running loop: "check", "propose", "execute", "add_back"
    heap,           \* the objects made so far; an object's identity is its index
    stage_jobs,     \* the list the running stage was called with (identities)
    stage_out,      \* the list it is building: [id, from] per entry
    stage_idx,      \* index of the running loop
    stage_entries   \* per stage begun: its input list and the heap at its call

heapVars == << hpc, heap, stage_jobs, stage_out, stage_idx, stage_entries >>

vars == << scanVars, assessVars, pipeVars, execVars, batchVars, taskVars, fixVars, postVars, propVars, dirVars, runVars, heapVars >>

\* What each part of the program leaves alone.
notScanVars == << assessVars, pipeVars, execVars, batchVars, taskVars, fixVars, postVars, propVars, dirVars, runVars, heapVars >>

notAssessVars == << scanVars, pipeVars, execVars, batchVars, taskVars, fixVars, postVars, propVars, dirVars, runVars, heapVars >>

notPipeVars == << scanVars, assessVars, execVars, batchVars, taskVars, fixVars, postVars, propVars, dirVars, runVars, heapVars >>

notExecVars == << scanVars, assessVars, pipeVars, batchVars, taskVars, fixVars, postVars, propVars, dirVars, runVars, heapVars >>

notBatchVars == << scanVars, assessVars, pipeVars, execVars, taskVars, fixVars, postVars, propVars, dirVars, runVars, heapVars >>

notTaskVars == << scanVars, assessVars, pipeVars, execVars, batchVars, fixVars, postVars, propVars, dirVars, runVars, heapVars >>

notFixVars == << scanVars, assessVars, pipeVars, execVars, batchVars, taskVars, postVars, propVars, dirVars, runVars, heapVars >>

notPostVars == << scanVars, assessVars, pipeVars, execVars, batchVars, taskVars, fixVars, propVars, dirVars, runVars, heapVars >>

notPropVars == << scanVars, assessVars, pipeVars, execVars, batchVars, taskVars, fixVars, postVars, dirVars, runVars, heapVars >>

notDirVars == << scanVars, assessVars, pipeVars, execVars, batchVars, taskVars, fixVars, postVars, propVars, runVars, heapVars >>

notRunVars == << scanVars, assessVars, pipeVars, execVars, batchVars, taskVars, fixVars, postVars, propVars, dirVars, heapVars >>

notHeapVars == << scanVars, assessVars, pipeVars, execVars, batchVars, taskVars, fixVars, postVars, propVars, dirVars, runVars >>

\* ------------------------------------------------------------------------
\* Lexemes
\* ------------------------------------------------------------------------
LB == "{"
RB == "}"
LSQ == "["
RSQ == "]"
DQ == "\""
SQ == "'"
BS == "\\"
NL == "\n"
SP == " "
\* The markdown fence marker (three backticks) is one lexeme.
FENCE == "<fence>"

\* Python's \s and str.strip() whitespace, as far as the lexemes go.
WS == {SP, NL}

Digits == {"0", "1", "2", "3", "5", "8", "9"}

\* The characters of the class [0-9.]
NumChars == Digits \cup {"."}

DigitVal(d) ==
    CASE d = "0" -> 0 [] d = "1" -> 1 [] d = "2" -> 2 [] d = "3" -> 3
      [] d = "5" -> 5 [] d = "8" -> 8 [] d = "9" -> 9 [] OTHER -> 0

\* ------------------------------------------------------------------------
\* Sequence helpers (Python slicing, str.find, str.strip)
\* ------------------------------------------------------------------------
\* text[i:j] with 1-based inclusive bounds; empty when j < i.
Slice(t, i, j) == IF j < i THEN << >> ELSE SubSeq(t, i, j)

\* text[i:] (1-based)
Tail_(t, i) == Slice(t, i, Len(t))

\* str.find(c): the least index holding c, or 0 when there is none.
Find(t, c) ==
    IF \E i \in 1..Len(t) : t[i] = c
    THEN CHOOSE i \in 1..Len(t) : t[i] = c /\ \A j \in 1..(i-1) : t[j] # c
    ELSE 0

\* The first index >= i that holds no whitespace (Len(t)+1 when none).
SkipWS(t, i) ==
    IF \E k \in i..Len(t) : t[k] \notin WS
    THEN CHOOSE k \in i..Len(t) : t[k] \notin WS /\ \A j \in i..(k-1) : t[j] \in WS
    ELSE IF i > Len(t) THEN i ELSE Len(t) + 1

\* str.strip()
Strip(t) ==
    LET a == SkipWS(t, 1)
    IN  IF a > Len(t) THEN << >>
        ELSE LET b == CHOOSE k \in a..Len(t) :
                        t[k] \notin WS /\ \A j \in (k+1)..Len(t) : t[j] \in WS
             IN  Slice(t, a, b)

\* ------------------------------------------------------------------------
\* _extract_json_balanced (feasibility_checker.py 153-201; the copy in
\* task_executor.py 1353-1394 is the same text)
\* ------------------------------------------------------------------------
\* re.sub(r'^<fence>(?:json)?\s*\n?', '', text, flags=re.MULTILINE):
\* at every line start a fence marker, an optional "json" and the
\* whitespace after it are removed.
RECURSIVE StripFenceOpen(_, _)
StripFenceOpen(t, i) ==
    IF i > Len(t) THEN << >>
    ELSE IF t[i] = FENCE /\ (i = 1 \/ t[i-1] = NL)
         THEN LET j == IF i + 1 <= Len(t) /\ t[i+1] = "json" THEN i + 2 ELSE i + 1
              IN  StripFenceOpen(t, SkipWS(t, j))
         ELSE << t[i] >> \o StripFenceOpen(t, i + 1)

\* The index just past a match of  \n?\s*<fence>\s*$  (MULTILINE) that
\* starts at i, or 0 when there is no match at i.  $ holds at the end of
\* the text and before a newline; \s* gives back as far as the last newline.
FenceCloseEnd(t, i) ==
    LET k == SkipWS(t, i)
    IN  IF k > Len(t) THEN 0
        ELSE IF t[k] # FENCE THEN 0
        ELSE LET m == SkipWS(t, k + 1)
             IN  IF m > Len(t) THEN Len(t) + 1
                 ELSE IF \E p \in (k+1)..(m-1) : t[p] = NL
                      THEN CHOOSE p \in (k+1)..(m-1) :
                               t[p] = NL /\ \A q \in (p+1)..(m-1) : t[q] # NL
                      ELSE 0

\* re.sub(r'\n?\s*<fence>\s*$', '', text, flags=re.MULTILINE)
RECURSIVE StripFenceClose(_, _)
StripFenceClose(t, i) ==
    IF i > Len(t) THEN << >>
    ELSE LET e == FenceCloseEnd(t, i)
         IN  IF e # 0 THEN StripFenceClose(t, e)
             ELSE << t[i] >> \o StripFenceClose(t, i + 1)

\* Lines 158-165: strip, and when the text starts with a fence marker,
\* remove the fences and strip again.
StripFences(txt) ==
    LET t == Strip(txt)
    IN  IF Len(t) > 0 /\ t[1] = FENCE
        THEN Strip(StripFenceClose(StripFenceOpen(t, 1), 1))
        ELSE t

\* A variant of the scan that counts braces inside strings too.
RECURSIVE ScanBracesNoStringMode(_, _, _, _, _, _)
ScanBracesNoStringMode(t, start_idx, i, brace_count, in_string, escape_next) ==
    IF i > Len(t) THEN Tail_(t, start_idx)
    ELSE IF t[i] = LB
         THEN ScanBracesNoStringMode(t, start_idx, i + 1, brace_count + 1, FALSE, FALSE)
    ELSE IF t[i] = RB
         THEN IF brace_count - 1 = 0 THEN Slice(t, start_idx, i)
              ELSE ScanBracesNoStringMode(t, start_idx, i + 1, brace_count - 1, FALSE, FALSE)
    ELSE ScanBracesNoStringMode(t, start_idx, i + 1, brace_count, FALSE, FALSE)

\* A variant of the scan in which a backslash does not protect the
\* character after it.
RECURSIVE ScanBracesNoEscape(_, _, _, _, _, _)
ScanBracesNoEscape(t, start_idx, i, brace_count, in_string, escape_next) ==
    IF i > Len(t) THEN Tail_(t, start_idx)
    ELSE IF t[i] = DQ
         THEN ScanBracesNoEscape(t, start_idx, i + 1, brace_count, ~in_string, FALSE)
    ELSE IF ~in_string /\ t[i] = LB
         THEN ScanBracesNoEscape(t, start_idx, i + 1, brace_count + 1, in_string, FALSE)
    ELSE IF ~in_string /\ t[i] = RB
         THEN IF brace_count - 1 = 0 THEN Slice(t, start_idx, i)
              ELSE ScanBracesNoEscape(t, start_idx, i + 1, brace_count - 1, in_string, FALSE)
    ELSE ScanBracesNoEscape(t, start_idx, i + 1, brace_count, in_string, FALSE)

\* Lines 172-201: the loop over text[start_idx:], with its three pieces of
\* state.  Returns text[start_idx:i+1] when the depth comes back to 0 and
\* text[start_idx:] when it never does.
RECURSIVE ScanBraces(_, _, _, _, _, _)
ScanBraces(t, start_idx, i, brace_count, in_string, escape_next) ==
    IF i > Len(t) THEN Tail_(t, start_idx)
    ELSE IF escape_next
         THEN ScanBraces(t, start_idx, i + 1, brace_count, in_string, FALSE)
    ELSE IF t[i] = BS
         THEN ScanBraces(t, start_idx, i + 1, brace_count, in_string, TRUE)
    ELSE IF t[i] = DQ
         THEN ScanBraces(t, start_idx, i + 1, brace_count, ~in_string, FALSE)
    ELSE IF ~in_string /\ t[i] = LB
         THEN ScanBraces(t, start_idx, i + 1, brace_count + 1, in_string, FALSE)
    ELSE IF ~in_string /\ t[i] = RB
         THEN IF brace_count - 1 = 0 THEN Slice(t, start_idx, i)
              ELSE ScanBraces(t, start_idx, i + 1, brace_count - 1, in_string, FALSE)
    ELSE ScanBraces(t, start_idx, i + 1, brace_count, in_string, FALSE)

\* Lines 167-201 on a text whose fences are already removed.
BalancedFrom(t) ==
    LET start_idx == Find(t, LB)
    IN  IF start_idx = 0 THEN << >>
        ELSE ScanBraces(t, start_idx, start_idx, 0, FALSE, FALSE)

\* _extract_json_balanced(text)
ExtractJsonBalanced(txt) == BalancedFrom(StripFences(txt))

\* ------------------------------------------------------------------------
\* The mechanical repairs of _extract_and_parse_json (lines 221-225)
\* ------------------------------------------------------------------------
\* re.sub of three consecutive c by one c
RECURSIVE CollapseTriple(_, _, _)
CollapseTriple(t, c, i) ==
    IF i > Len(t) THEN << >>
    ELSE IF i + 2 <= Len(t) /\ t[i] = c /\ t[i+1] = c /\ t[i+2] = c
         THEN << c >> \o CollapseTriple(t, c, i + 3)
         ELSE << t[i] >> \o CollapseTriple(t, c, i + 1)

\* re.sub(r',\s*}', '}', s) and re.sub(r',\s*]', ']', s)
RECURSIVE DropTrailingComma(_, _, _)
DropTrailingComma(t, close, i) ==
    IF i > Len(t) THEN << >>
    ELSE LET k == SkipWS(t, i + 1)
         IN  IF t[i] = "," /\ k <= Len(t) /\ t[k] = close
             THEN << close >> \o DropTrailingComma(t, close, k + 1)
             ELSE << t[i] >> \o DropTrailingComma(t, close, i + 1)

\* A variant of the repairs that leaves the text as it is.
QuickFixesNone(js) == js

QuickFixes(js) ==
    LET a == CollapseTriple(js, DQ, 1)
        b == CollapseTriple(a, SQ, 1)
        c == DropTrailingComma(b, RB, 1)
    IN  DropTrailingComma(c, RSQ, 1)

\* ------------------------------------------------------------------------
\* json.loads (the standard decoder the source calls at lines 229 and 257).
\* A decoded value is written as a bracketed sequence: "#str" .. "#end",
\* "#num" .. "#end", "#true", "#false", "#null", "#arr" .. "#end",
\* "#obj" key "#:" value "#," .. "#end"; a decoded object is also given
\* as its sequence of <<key, value>> pairs.
\* ------------------------------------------------------------------------
ParseFail == [ok |-> FALSE, pos |-> 0, val |-> << >>, pairs |-> << >>]

ParseOk(p, v) == [ok |-> TRUE, pos |-> p, val |-> v, pairs |-> << >>]

\* Lexemes whose first character is a legal escape character after a
\* backslash inside a JSON string (one of " \ / b f n r t).
EscapeOK == {DQ, BS, "n", "true", "false", "null", "feasible", "no", "not",
             "reasoning", "risks", "tokens"}

\* The body of a string from index j up to its closing quote.  A raw
\* newline (a control character) and an illegal escape are errors.
RECURSIVE ParseStringBody(_, _)
ParseStringBody(t, j) ==
    IF j > Len(t) THEN ParseFail
    ELSE IF t[j] = DQ THEN ParseOk(j + 1, << >>)
    ELSE IF t[j] = NL THEN ParseFail
    ELSE IF t[j] = BS
         THEN IF j + 1 <= Len(t) /\ t[j+1] \in EscapeOK
              THEN LET r == ParseStringBody(t, j + 2)
                   IN  IF r.ok THEN ParseOk(r.pos, << BS, t[j+1] >> \o r.val)
                       ELSE ParseFail
              ELSE ParseFail
    ELSE LET r == ParseStringBody(t, j + 1)
         IN  IF r.ok THEN ParseOk(r.pos, << t[j] >> \o r.val) ELSE ParseFail

\* The first index >= i that holds no digit.
DigitRunEnd(t, i) ==
    IF \E k \in i..Len(t) : t[k] \notin Digits
    THEN CHOOSE k \in i..Len(t) : t[k] \notin Digits /\ \A j \in i..(k-1) : t[j] \in Digits
    ELSE IF i > Len(t) THEN i ELSE Len(t) + 1

\* NUMBER_RE of the decoder: (0|[1-9][0-9]*)(\.[0-9]+)?  matched at i.
ParseNumber(t, i) ==
    LET e == IF t[i] = "0" THEN i + 1 ELSE DigitRunEnd(t, i)
        f == IF e + 1 <= Len(t) /\ t[e] = "." /\ t[e+1] \in Digits
             THEN DigitRunEnd(t, e + 1) ELSE e
    IN  ParseOk(f, << "#num" >> \o Slice(t, i, f - 1) \o << "#end" >>)

RECURSIVE ParseValue(_, _)
RECURSIVE ParseMembers(_, _, _, _)
RECURSIVE ParseItems(_, _, _)

\* "key" : value , "key" : value ... }   with i at the quote of a key
ParseMembers(t, i, flat, pairs) ==
    IF i > Len(t) THEN ParseFail
    ELSE IF t[i] # DQ THEN ParseFail
    ELSE LET k == ParseStringBody(t, i + 1)
         IN  IF ~k.ok THEN ParseFail
             ELSE LET c == SkipWS(t, k.pos)
                  IN  IF c > Len(t) THEN ParseFail
                      ELSE IF t[c] # ":" THEN ParseFail
                      ELSE LET v == ParseValue(t, SkipWS(t, c + 1))
                           IN  IF ~v.ok THEN ParseFail
                               ELSE LET n  == SkipWS(t, v.pos)
                                        fl == flat \o k.val \o << "#:" >> \o v.val
                                        ps == Append(pairs, << k.val, v.val >>)
                                    IN  IF n > Len(t) THEN ParseFail
                                        ELSE IF t[n] = RB
                                             THEN [ok |-> TRUE, pos |-> n + 1,
                                                   val |-> << "#obj" >> \o fl \o << "#end" >>,
                                                   pairs |-> ps]
                                        ELSE IF t[n] = ","
                                             THEN ParseMembers(t, SkipWS(t, n + 1),
                                                               fl \o << "#," >>, ps)
                                        ELSE ParseFail

\* value , value ... ]   with i at the first lexeme of a value
ParseItems(t, i, flat) ==
    LET v == ParseValue(t, i)
    IN  IF ~v.ok THEN ParseFail
        ELSE LET n == SkipWS(t, v.pos)
             IN  IF n > Len(t) THEN ParseFail
                 ELSE IF t[n] = RSQ
                      THEN ParseOk(n + 1, << "#arr" >> \o flat \o v.val \o << "#end" >>)
                 ELSE IF t[n] = ","
                      THEN ParseItems(t, SkipWS(t, n + 1), flat \o v.val \o << "#," >>)
                 ELSE ParseFail

ParseValue(t, i) ==
    IF i > Len(t) THEN ParseFail
    ELSE IF t[i] = DQ
         THEN LET r == ParseStringBody(t, i + 1)
              IN  IF r.ok THEN ParseOk(r.pos, << "#str" >> \o r.val \o << "#end" >>)
                  ELSE ParseFail
    ELSE IF t[i] = LB
         THEN LET n == SkipWS(t, i + 1)
              IN  IF n > Len(t) THEN ParseFail
                  ELSE IF t[n] = RB THEN ParseOk(n + 1, << "#obj", "#end" >>)
                  ELSE ParseMembers(t, n, << >>, << >>)
    ELSE IF t[i] = LSQ
         THEN LET n == SkipWS(t, i + 1)
              IN  IF n > Len(t) THEN ParseFail
                  ELSE IF t[n] = RSQ THEN ParseOk(n + 1, << "#arr", "#end" >>)
                  ELSE ParseItems(t, n, << >>)
    ELSE IF t[i] = "true" THEN ParseOk(i + 1, << "#true" >>)
    ELSE IF t[i] = "false" THEN ParseOk(i + 1, << "#false" >>)
    ELSE IF t[i] = "null" THEN ParseOk(i + 1, << "#null" >>)
    ELSE IF t[i] \in Digits THEN ParseNumber(t, i)
    ELSE ParseFail

\* A variant of the decoder that accepts text after the value.
JsonLoadsLax(s) == ParseValue(s, SkipWS(s, 1))

\* json.loads(s): one value with optional whitespace around it; anything
\* else raises JSONDecodeError (ok = FALSE).
JsonLoads(s) ==
    LET r == ParseValue(s, SkipWS(s, 1))
    IN  IF r.ok /\ SkipWS(s, r.pos) > Len(s) THEN r ELSE ParseFail

\* ------------------------------------------------------------------------
\* _parse_text_response (feasibility_checker.py 270-388): the regular
\* expressions, on lexemes
\* ------------------------------------------------------------------------
\* Lexemes that match (true|false) under re.IGNORECASE
TrueLex == {"true", "True"}

FalseLex == {"false", "False"}

\* Lexemes that contain "feasible"
FeasibleLex == {"is_feasible", "feasible"}

\* Lexemes that contain true, yes or 1 / false, no or 0 (ignoring case)
HintTrueLex == TrueLex \cup {"yes", "1"}

HintFalseLex == FalseLex \cup {"no", "not", "0"}

\* Lexemes that contain "tokens"
TokensLex == {"estimated_tokens", "tokens"}

\* Lexemes made of letters and underscores only: [a-z_]+ ignoring case
WordLex == {"a", "n", "json", "true", "True", "false", "False", "null", "yes", "no",
            "not", "high", "is_feasible", "feasible", "confidence", "reasoning",
            "estimated_tokens", "tokens", "risks"}

\* The least element of a set of indices, 0 for the empty set.
Least(S) == IF S = {} THEN 0 ELSE CHOOSE x \in S : \A y \in S : x <= y

\* The pattern  name\s*:\s*  (with the name in double quotes when quoted)
\* matched at index i: the index right after it, 0 when it does not match.
FieldValueAt(t, i, name, quoted) ==
    LET e == IF quoted
             THEN IF i + 2 <= Len(t) /\ t[i] = DQ /\ t[i+1] = name /\ t[i+2] = DQ
                  THEN i + 3 ELSE 0
             ELSE IF t[i] = name THEN i + 1 ELSE 0
    IN  IF e = 0 THEN 0
        ELSE LET c == SkipWS(t, e)
             IN  IF c <= Len(t) /\ t[c] = ":" THEN SkipWS(t, c + 1) ELSE 0

\* re.search of  name\s*:\s*(value)  where the value starts with a lexeme
\* of the set V: the index of the value in the leftmost match, 0 for none.
SearchField(t, name, quoted, V) ==
    LET hits == { i \in 1..Len(t) :
                    LET v == FieldValueAt(t, i, name, quoted)
                    IN  v # 0 /\ v <= Len(t) /\ t[v] \in V }
    IN  IF hits = {} THEN 0 ELSE FieldValueAt(t, Least(hits), name, quoted)

\* re.search(r'feasible[^"]*(?:H)', text, re.IGNORECASE) for a hint set H
HintAfterFeasible(t, H) ==
    \E i \in 1..Len(t) : \E j \in (i+1)..Len(t) :
        /\ t[i] \in FeasibleLex
        /\ t[j] \in H
        /\ \A k \in (i+1)..(j-1) : t[k] # DQ

\* A variant of the is_feasible scrape in which a positive hint wins.
ScrapeFeasibleOptimistic(t) ==
    LET q == SearchField(t, "is_feasible", TRUE, TrueLex \cup FalseLex)
        u == SearchField(t, "is_feasible", FALSE, TrueLex \cup FalseLex)
    IN  IF q # 0 THEN t[q] \in TrueLex
        ELSE IF u # 0 THEN t[u] \in TrueLex
        ELSE TRUE

\* lines 277-297
ScrapeFeasible(t) ==
    LET q == SearchField(t, "is_feasible", TRUE, TrueLex \cup FalseLex)
        u == SearchField(t, "is_feasible", FALSE, TrueLex \cup FalseLex)
    IN  IF q # 0 THEN t[q] \in TrueLex
        ELSE IF u # 0 THEN t[u] \in TrueLex
        ELSE IF HintAfterFeasible(t, HintFalseLex) THEN FALSE
        ELSE IF HintAfterFeasible(t, HintTrueLex) THEN TRUE
        ELSE FALSE

\* The first index >= i that holds no lexeme of S.
RunEnd(t, i, S) ==
    IF \E k \in i..Len(t) : t[k] \notin S
    THEN CHOOSE k \in i..Len(t) : t[k] \notin S /\ \A j \in i..(k-1) : t[j] \in S
    ELSE IF i > Len(t) THEN i ELSE Len(t) + 1

\* float(s) succeeds on a digit string with at most one "." and at least
\* one digit.
PyFloatOk(ls) ==
    /\ Len(ls) > 0
    /\ \A i \in 1..Len(ls) : ls[i] \in NumChars
    /\ Cardinality({ i \in 1..Len(ls) : ls[i] = "." }) <= 1
    /\ \E i \in 1..Len(ls) : ls[i] \in Digits

RECURSIVE IntVal(_)
IntVal(ds) ==
    IF Len(ds) = 0 THEN 0
    ELSE IntVal(SubSeq(ds, 1, Len(ds) - 1)) * 10 + DigitVal(ds[Len(ds)])

\* The value of float(s) in hundredths (digits after the second decimal
\* are dropped).
PyFloatVal(ls) ==
    LET dot  == Find(ls, ".")
        ip   == IF dot = 0 THEN ls ELSE Slice(ls, 1, dot - 1)
        fr   == IF dot = 0 THEN << >> ELSE Tail_(ls, dot + 1)
        d1   == IF Len(fr) >= 1 THEN DigitVal(fr[1]) ELSE 0
        d2   == IF Len(fr) >= 2 THEN DigitVal(fr[2]) ELSE 0
    IN  IntVal(ip) * 100 + d1 * 10 + d2

Num(ls) == << "#num" >> \o ls \o << "#end" >>

Str(ls) == << "#str" >> \o ls \o << "#end" >>

\* lines 299-311: [raised, val]; float() raises ValueError on a captured
\* run such as 0.8. or 1.2.3
ScrapeConfidence(t, is_feasible_) ==
    LET q == SearchField(t, "confidence", TRUE, NumChars)
        u == SearchField(t, "confidence", FALSE, NumChars)
        v == IF q # 0 THEN q ELSE u
        run == Slice(t, v, RunEnd(t, v, NumChars) - 1)
    IN  IF v = 0
        THEN [raised |-> FALSE,
              val |-> IF is_feasible_ THEN Num(<< "0", ".", "3" >>)
                      ELSE Num(<< "0", ".", "2" >>)]
        ELSE IF PyFloatOk(run) THEN [raised |-> FALSE, val |-> Num(run)]
        ELSE [raised |-> TRUE, val |-> << >>]

\* re.search(r'tokens[^:]*:\s*([0-9]+)', text): index of the digits, or 0
TokensNearColon(t) ==
    LET hits == { i \in 1..Len(t) :
                    /\ t[i] \in TokensLex
                    /\ LET c == Least({ k \in (i+1)..Len(t) : t[k] = ":" })
                       IN  /\ c # 0
                           /\ SkipWS(t, c + 1) <= Len(t)
                           /\ t[SkipWS(t, c + 1)] \in Digits }
    IN  IF hits = {} THEN 0
        ELSE LET i == Least(hits)
                 c == Least({ k \in (i+1)..Len(t) : t[k] = ":" })
             IN  SkipWS(t, c + 1)

\* lines 350-369
ScrapeTokens(t) ==
    LET q == SearchField(t, "estimated_tokens", TRUE, Digits \cup {"null"})
        u == SearchField(t, "estimated_tokens", FALSE, Digits \cup {"null"})
        n == TokensNearColon(t)
        v == IF q # 0 THEN q ELSE IF u # 0 THEN u ELSE n
    IN  IF v = 0 THEN << "#null" >>
        ELSE IF t[v] = "null" THEN << "#null" >>
        ELSE Num(Slice(t, v, RunEnd(t, v, Digits) - 1))

\* re.findall(r'"([^"]+)"', s): the non-empty quoted pieces, left to right
RECURSIVE QuotedItems(_, _)
QuotedItems(t, i) ==
    IF i > Len(t) THEN << >>
    ELSE IF t[i] # DQ THEN QuotedItems(t, i + 1)
    ELSE LET j == Least({ k \in (i+1)..Len(t) : t[k] = DQ })
         IN  IF j = 0 THEN << >>
             ELSE IF j = i + 1 THEN QuotedItems(t, i + 1)
             ELSE << Slice(t, i + 1, j - 1) >> \o QuotedItems(t, j + 1)

\* A list of strings as a decoded array.
RECURSIVE StrItems(_)
StrItems(items) ==
    IF Len(items) = 0 THEN << >>
    ELSE IF Len(items) = 1 THEN Str(items[1])
    ELSE Str(items[1]) \o << "#," >> \o StrItems(Tail(items))

Arr(items) == << "#arr" >> \o StrItems(items) \o << "#end" >>

\* The list used when the text yields no risk (lines 379-380).
NoRisksScraped == << << "Extracted via text parsing" >> >>

\* A variant with the empty list in its place.
ScrapeRisksEmptyDefault(t) == Arr(<< >>)

\* lines 371-380
ScrapeRisks(t) ==
    LET v  == SearchField(t, "risks", TRUE, {LSQ})
        rb == IF v = 0 THEN 0 ELSE Least({ k \in (v+1)..Len(t) : t[k] = RSQ })
        items == IF rb = 0 THEN << >> ELSE QuotedItems(Slice(t, v + 1, rb - 1), 1)
    IN  IF Len(items) > 0 THEN Arr(items) ELSE Arr(NoRisksScraped)

\* The index of the next double quote after i, 0 for none.
NextQuote(t, i) == Least({ k \in (i+1)..Len(t) : t[k] = DQ })

\* Line 317:  "reasoning"\s*:\s*"\s*\n?\s*([^"]*?)"(?=\s*[,}])
\* The opening quote index of the leftmost match, 0 for none.
ReasoningClosed(t) ==
    Least({ v \in 1..Len(t) :
              /\ \E i \in 1..Len(t) : FieldValueAt(t, i, "reasoning", TRUE) = v
              /\ t[v] = DQ
              /\ NextQuote(t, v) # 0
              /\ LET n == SkipWS(t, NextQuote(t, v) + 1)
                 IN  n <= Len(t) /\ t[n] \in {",", RB} })

\* Line 322:  "reasoning"\s*:\s*"([^"]+)"
ReasoningQuoted(t) ==
    Least({ v \in 1..Len(t) :
              /\ \E i \in 1..Len(t) : FieldValueAt(t, i, "reasoning", TRUE) = v
              /\ t[v] = DQ
              /\ NextQuote(t, v) > v + 1 })

\* Line 327:  "reasoning"\s*:\s*"""([^"]*?)"""
\* The index of the third opening quote, 0 for none.
ReasoningTriple(t) ==
    Least({ w \in 3..Len(t) :
              /\ \E i \in 1..Len(t) : FieldValueAt(t, i, "reasoning", TRUE) = w - 2
              /\ t[w-2] = DQ /\ t[w-1] = DQ /\ t[w] = DQ
              /\ LET j == NextQuote(t, w)
                 IN  j # 0 /\ j + 2 <= Len(t) /\ t[j+1] = DQ /\ t[j+2] = DQ })

\* The lookahead of line 333 at index k:  \s*"[a-z_]+\s*:  or  \s*[},]
FieldOrCloseAhead(t, k) ==
    LET n == SkipWS(t, k)
    IN  /\ n <= Len(t)
        /\ \/ t[n] \in {RB, ","}
           \/ /\ t[n] = DQ
              /\ RunEnd(t, n + 1, WordLex) > n + 1
              /\ SkipWS(t, RunEnd(t, n + 1, WordLex)) <= Len(t)
              /\ t[SkipWS(t, RunEnd(t, n + 1, WordLex))] = ":"

\* The lazy capture ([^"]*?) of line 333 from index p: the index just past
\* the shortest capture after which the lookahead holds, 0 for none.
LazyUntilAhead(t, p) ==
    Least({ k \in p..(Len(t) + 1) :
              /\ \A j \in p..(k-1) : t[j] # DQ
              /\ FieldOrCloseAhead(t, k) })

\* Line 333:  "reasoning"\s*:\s*["\']?\s*\n?\s*([^"]*?)(?=...)
\* [from, to) of the capture of the leftmost match, << 0, 0 >> for none.
ReasoningOpen(t) ==
    LET starts == { v \in 1..(Len(t) + 1) :
                      \E i \in 1..Len(t) : FieldValueAt(t, i, "reasoning", TRUE) = v }
        from(v) == IF v <= Len(t) /\ t[v] \in {DQ, SQ} /\ LazyUntilAhead(t, v + 1) # 0
                   THEN v + 1 ELSE v
        ok == { v \in starts : LazyUntilAhead(t, from(v)) # 0 }
    IN  IF ok = {} THEN << 0, 0 >>
        ELSE << from(Least(ok)), LazyUntilAhead(t, from(Least(ok))) >>

\* re.sub(r'^["\']+|["\']+$', '', s)
StripQuotes(ls) ==
    LET Q == {DQ, SQ}
        a == RunEnd(ls, 1, Q)
    IN  IF a > Len(ls) THEN << >>
        ELSE LET b == CHOOSE k \in a..Len(ls) :
                        ls[k] \notin Q /\ \A j \in (k+1)..Len(ls) : ls[j] \in Q
             IN  Slice(ls, a, b)

\* Lines 347-348: newlines become spaces and ' '.join(s.split()) leaves
\* single spaces between words and none at the ends.
RECURSIVE CollapseSpaces(_, _)
CollapseSpaces(ls, i) ==
    IF i > Len(ls) THEN << >>
    ELSE IF ls[i] \in WS
         THEN IF i = Len(ls) \/ ls[i+1] \in WS THEN CollapseSpaces(ls, i + 1)
              ELSE << SP >> \o CollapseSpaces(ls, i + 1)
    ELSE << ls[i] >> \o CollapseSpaces(ls, i + 1)

\* A variant of the clean-up that keeps the text as it is.
CleanReasoningNone(ls) == ls

CleanReasoning(ls) == CollapseSpaces(Strip(ls), 1)

\* Lines 313-344.  The pattern of line 340 needs 100 characters after the
\* colon, more than any text of the model holds, so the last case is the
\* default of line 344 (text[:400] is the whole text).
ScrapeReasoning(t) ==
    LET c == ReasoningClosed(t)
        q == ReasoningQuoted(t)
        w == ReasoningTriple(t)
        o == ReasoningOpen(t)
    IN  IF c # 0 THEN Strip(Slice(t, c + 1, NextQuote(t, c) - 1))
        ELSE IF q # 0 THEN Slice(t, q + 1, NextQuote(t, q) - 1)
        ELSE IF w # 0 THEN Strip(Slice(t, w + 1, NextQuote(t, w) - 1))
        ELSE IF o[1] # 0 THEN StripQuotes(Strip(Slice(t, o[1], o[2] - 1)))
        ELSE << "Extracted from LLM response:", SP >> \o t

\* The dict returned at lines 382-388, as <<key, value>> pairs.
ScrapedDict(is_feasible_, confidence_, reasoning_, estimated_tokens_, risks_) ==
    << << << "is_feasible" >>, IF is_feasible_ THEN << "#true" >> ELSE << "#false" >> >>,
       << << "confidence" >>, confidence_ >>,
       << << "reasoning" >>, Str(reasoning_) >>,
       << << "estimated_tokens" >>, estimated_tokens_ >>,
       << << "risks" >>, risks_ >> >>

\* _parse_text_response(text): [raised, pairs]
ParseTextResponse(t) ==
    LET f == ScrapeFeasible(t)
        c == ScrapeConfidence(t, f)
    IN  IF c.raised THEN [raised |-> TRUE, pairs |-> << >>]
        ELSE [raised |-> FALSE,
              pairs |-> ScrapedDict(f, c.val, CleanReasoning(ScrapeReasoning(t)),
                                    ScrapeTokens(t), ScrapeRisks(t))]

\* ------------------------------------------------------------------------
\* check_job_feasibility (feasibility_checker.py 38-150)
\* ------------------------------------------------------------------------
\* dict.get(key): the value of the last pair with that key.
HasKey(pairs, key) == \E i \in 1..Len(pairs) : pairs[i][1] = << key >>

Get(pairs, key) ==
    pairs[CHOOSE i \in 1..Len(pairs) :
              /\ pairs[i][1] = << key >>
              /\ \A j \in (i+1)..Len(pairs) : pairs[j][1] # << key >>][2]

\* The lexemes between the opening tag and the closing "#end" of a value.
Inner(v) == Slice(v, 2, Len(v) - 1)

\* bool(v) of Python for a decoded JSON value
PyBool(v) ==
    CASE v[1] = "#true"  -> TRUE
      [] v[1] = "#false" -> FALSE
      [] v[1] = "#null"  -> FALSE
      [] v[1] = "#num"   -> \E i \in 1..Len(Inner(v)) : Inner(v)[i] \in Digits \ {"0"}
      [] OTHER           -> Len(v) > 2

\* float(v) of Python for a decoded JSON value: [raised, val] with val in
\* hundredths.  None, lists, dicts and non-numeric strings raise.
PyFloat(v) ==
    CASE v[1] = "#true"  -> [raised |-> FALSE, val |-> 100]
      [] v[1] = "#false" -> [raised |-> FALSE, val |-> 0]
      [] v[1] = "#num"   -> [raised |-> FALSE, val |-> PyFloatVal(Inner(v))]
      [] v[1] = "#str"   -> IF PyFloatOk(Strip(Inner(v)))
                            THEN [raised |-> FALSE, val |-> PyFloatVal(Strip(Inner(v)))]
                            ELSE [raised |-> TRUE, val |-> 0]
      [] OTHER           -> [raised |-> TRUE, val |-> 0]

\* The characters of a decoded JSON string: \n, \" and \\ are the escapes
\* the texts of the model use.
RECURSIVE Unescape(_, _)
Unescape(ls, i) ==
    IF i > Len(ls) THEN << >>
    ELSE IF ls[i] = BS /\ i + 1 <= Len(ls) /\ ls[i+1] \in {"n", DQ, BS}
         THEN << (IF ls[i+1] = "n" THEN NL ELSE ls[i+1]) >> \o Unescape(ls, i + 2)
    ELSE << ls[i] >> \o Unescape(ls, i + 1)

\* str(v) of Python for a decoded JSON value
PyStr(v) ==
    CASE v[1] = "#str"   -> Unescape(Inner(v), 1)
      [] v[1] = "#true"  -> << "True" >>
      [] v[1] = "#false" -> << "False" >>
      [] v[1] = "#null"  -> << "None" >>
      [] v[1] = "#num"   -> Inner(v)
      [] OTHER           -> v

\* The values of 0.5 and 0.2 in hundredths (lines 128 and 144).
DefaultConfidence == 50

ErrorConfidence == 20

\* A variant of the handler's answer that trusts the job.
ErrorAssessmentOptimistic(where) ==
    [is_feasible |-> TRUE, confidence |-> DefaultConfidence,
     reasoning |-> << "Error during assessment: ", where >>,
     estimated_tokens |-> << "#null" >>,
     risks |-> Arr(<< << "Assessment error occurred" >> >>),
     llm_response |-> << >>]

\* Lines 142-150; `where` stands for str(e), the message of the exception.
ErrorAssessment(where) ==
    [is_feasible |-> FALSE, confidence |-> ErrorConfidence,
     reasoning |-> << "Error during assessment: ", where >>,
     estimated_tokens |-> << "#null" >>,
     risks |-> Arr(<< << "Assessment error occurred" >> >>),
     llm_response |-> << >>]

\* Lines 126-135, once float() has succeeded.
Normalised(pairs, resp) ==
    [is_feasible |-> IF HasKey(pairs, "is_feasible")
                     THEN PyBool(Get(pairs, "is_feasible")) ELSE FALSE,
     confidence |-> IF HasKey(pairs, "confidence")
                    THEN PyFloat(Get(pairs, "confidence")).val ELSE DefaultConfidence,
     reasoning |-> IF HasKey(pairs, "reasoning")
                   THEN PyStr(Get(pairs, "reasoning")) ELSE resp,
     estimated_tokens |-> IF HasKey(pairs, "estimated_tokens")
                          THEN Get(pairs, "estimated_tokens") ELSE << "#null" >>,
     risks |-> IF HasKey(pairs, "risks") THEN Get(pairs, "risks") ELSE Arr(<< >>),
     llm_response |-> resp]

\* float(result.get("confidence", 0.5)) raises (line 128).
NormaliseRaises(pairs) ==
    HasKey(pairs, "confidence") /\ PyFloat(Get(pairs, "confidence")).raised

\* A variant of the extractor that asks the model again when the repair
\* answer cannot be used.
AfterFailedRepairAskAgain == "repairing"

\* Where the extractor goes when the repair answer cannot be used
\* (lines 260-267): the text parser.
AfterFailedRepair == "scrape"

\* ------------------------------------------------------------------------
\* Scripts (task_executor.py).  A script is a sequence of lines and a line
\* is a sequence of lexemes; the text is the lines joined by newlines.
\* The repairs are modelled for the names the model scripts use: the
\* module pandas with its alias pd, and the function names f and g.
\* ------------------------------------------------------------------------
ImportLex == "import "

DefLex == "def "

\* What may follow "import " for the pandas module.
PandasLex == {"pandas", "pandas as pd"}

\* 'import pandas' in script
HasImportPandas(script) ==
    \E k \in 1..Len(script) : \E i \in 1..(Len(script[k]) - 1) :
        script[k][i] = ImportLex /\ script[k][i+1] \in PandasLex

\* re.search(r'\bpd\.|pandas\.', script)
UsesPd(script) ==
    \E k \in 1..Len(script) : \E i \in 1..Len(script[k]) : script[k][i] = "pd."

\* ' as pd' in script
HasAsPd(script) ==
    \E k \in 1..Len(script) : \E i \in 1..Len(script[k]) : script[k][i] = "pandas as pd"

\* script.replace('import pandas', 'import pandas as pd')
AliasPandas(script) ==
    [k \in 1..Len(script) |->
        [i \in 1..Len(script[k]) |->
            IF i > 1 /\ script[k][i-1] = ImportLex /\ script[k][i] = "pandas"
            THEN "pandas as pd" ELSE script[k][i]]]

\* Lines matched by ^(import |from .+ import ) (lines 752-753)
ImportLines(script) ==
    { k \in 1..Len(script) : Len(script[k]) > 0 /\ script[k][1] = ImportLex }

Greatest(S) == CHOOSE x \in S : \A y \in S : y <= x

\* script with the lines ls put after line k
InsertAfter(script, k, ls) ==
    Slice(script, 1, k) \o ls \o Slice(script, k + 1, Len(script))

\* Lines 749-773: the needed imports go after the last import line when
\* a newline follows it, nowhere when none follows, and to the top when
\* the script has no import line.
AddImports(script, needed_imports) ==
    IF ImportLines(script) # {}
    THEN LET k == Greatest(ImportLines(script))
         IN  IF k < Len(script) THEN InsertAfter(script, k, needed_imports)
             ELSE script
    ELSE needed_imports \o script

\* _repair_script (lines 703-775), the pandas rule of lines 715-720.
RepairScript(script) ==
    IF UsesPd(script) /\ ~HasImportPandas(script)
    THEN AddImports(script, << << ImportLex, "pandas as pd" >> >>)
    ELSE IF UsesPd(script) /\ HasImportPandas(script) /\ ~HasAsPd(script)
    THEN AliasPandas(script)
    ELSE script

\* The names a NameError of the model reports.
Names == {"f", "g"}

\* re.search(r"NameError: name '(\w+)' is not defined", error_text): the
\* name, "" for no match.
MissingName(error_text_) ==
    LET hits == { i \in 1..(Len(error_text_) - 3) :
                    /\ error_text_[i] = "NameError"
                    /\ error_text_[i+1] = ": name '"
                    /\ error_text_[i+2] \in Names
                    /\ error_text_[i+3] = "' is not defined" }
    IN  IF hits = {} THEN "" ELSE error_text_[Least(hits) + 2]

\* Matches of  \bname\s*\(  as << line, index >>, in text order.
CallSites(script, name) ==
    UNION { { << k, i >> : i \in { j \in 1..(Len(script[k]) - 1) :
                                      script[k][j] = name /\ script[k][j+1] = "(" } } :
            k \in 1..Len(script) }

\* re.search(rf'^\s*def\s+{name}\s*\(', script, re.MULTILINE)
HasDef(script, name) ==
    \E k \in 1..Len(script) :
        Len(script[k]) >= 3 /\ script[k][1] = DefLex /\ script[k][2] = name
            /\ script[k][3] = "("

\* The first call site in text order.
FirstCall(script, name) ==
    CHOOSE c \in CallSites(script, name) :
        \A d \in CallSites(script, name) :
            c[1] < d[1] \/ (c[1] = d[1] /\ c[2] <= d[2])

\* The stub of lines 824-830 without its leading and closing newline: the
\* def line and the body (the body is one lexeme).
FunctionStub(name) ==
    << << DefLex, name, "(", "*args, **kwargs):" >>, << "<stub body>" >> >>

\* Lines whose start matches ^(def |import |from |class ) and lies before
\* the call site c.
HeadsBefore(script, c) ==
    { k \in 1..c[1] :
        /\ Len(script[k]) > 0
        /\ script[k][1] \in {DefLex, ImportLex}
        /\ (k < c[1] \/ c[2] > 1) }

\* Lines 836-851: where the stub goes.  After the keyword of the last def
\* or import line before the call (the line is cut in two there); else at
\* the newline after the last import line of the script; else after the
\* first character of the script.
InsertStub(script, name) ==
    LET c    == FirstCall(script, name)
        stub == FunctionStub(name)
    IN  IF HeadsBefore(script, c) # {}
        THEN LET k == Greatest(HeadsBefore(script, c))
             IN  Slice(script, 1, k - 1)
                    \o << << script[k][1] >> >> \o stub \o << << >> >>
                    \o << Tail(script[k]) >>
                    \o Slice(script, k + 1, Len(script))
        ELSE IF ImportLines(script) # {} /\ Greatest(ImportLines(script)) < Len(script)
        THEN LET k == Greatest(ImportLines(script))
             IN  Slice(script, 1, k) \o stub \o << << >> >>
                    \o Slice(script, k + 1, Len(script))
        ELSE << << script[1][1] >> >> \o stub \o << << >> >>
                \o << Tail(script[1]) >> \o Tail(script)

\* A variant of the error repair that never changes the script.
RepairScriptErrorsNone(script, error_text_) == script

\* _repair_script_errors (lines 778-870).  The clause of lines 853-866 needs
\* a regular-expression error in stderr, which no stderr of the model has.
RepairScriptErrors(script, error_text_) ==
    LET name == MissingName(error_text_)
    IN  IF name # "" /\ CallSites(script, name) # {} /\ ~HasDef(script, name)
        THEN RepairScript(InsertStub(script, name))
        ELSE RepairScript(script)

\* Lexemes that hold "undefined" in some case
UndefinedLex == {"undefined", "Undefined"}

\* A variant of the test of line 568 that takes every error for fixable.
ErrorLooksFixableAlways(error_text_) == TRUE

\* Line 568
ErrorLooksFixable(error_text_) ==
    \/ \E i \in 1..Len(error_text_) : error_text_[i] = "NameError"
    \/ \E i \in 1..Len(error_text_) : error_text_[i] = "ModuleNotFoundError"
    \/ \E i \in 1..Len(error_text_) : error_text_[i] \in UndefinedLex

\* The first line after k that is not empty, Len(script) + 1 for none.
NextNonEmpty(script, k) ==
    IF \E m \in (k+1)..Len(script) : Len(script[m]) > 0
    THEN CHOOSE m \in (k+1)..Len(script) :
             Len(script[m]) > 0 /\ \A j \in (k+1)..(m-1) : Len(script[j]) = 0
    ELSE Len(script) + 1

\* _install_script_dependencies (lines 646-700): is pandas among the
\* modules found by  ^(?:import|from)\s+(\w+)  from line k on.  \s+ runs
\* over newlines, so a line that ends after "import " takes the first
\* word of the next line that is not empty as its module.
RECURSIVE PandasFoundFrom(_, _)
PandasFoundFrom(script, k) ==
    IF k > Len(script) THEN FALSE
    ELSE IF Len(script[k]) = 0 \/ script[k][1] # ImportLex
         THEN PandasFoundFrom(script, k + 1)
    ELSE IF Len(script[k]) >= 2
         THEN script[k][2] \in PandasLex \/ PandasFoundFrom(script, k + 1)
    ELSE LET m == NextNonEmpty(script, k)
         IN  IF m > Len(script) THEN FALSE
             ELSE script[m][1] \in PandasLex \/ PandasFoundFrom(script, m + 1)

ImportsPandas(script) == PandasFoundFrom(script, 1)

\* Line 694 reads sys.executable, and task_executor.py binds no name sys
\* at module level: when a package has to be installed the function raises
\* NameError.
InstallRaises(script, importable) ==
    ImportsPandas(script) /\ ~importable

\* ------------------------------------------------------------------------
\* Input texts
\* ------------------------------------------------------------------------
\* Longest text of the exhaustive family.
MaxScanLen == 5

\* Longest string value (in units) of an embedded object.
MaxStrLen == 2

\* All sequences over S of length at most n.
SeqsUpTo(S, n) == UNION { [1..k -> S] : k \in 0..n }

ScanAlphabet == {LB, RB, DQ, BS, "a"}

\* Every text over the characters the brace scan looks at.
ScanTexts == SeqsUpTo(ScanAlphabet, MaxScanLen)

\* Pieces a JSON string value is made of; each is legal inside a string.
StrUnits == { << "a" >>, << "," >>, << RB >>, << LB >>, << SP >>, << SQ >>, << BS, DQ >> }

RECURSIVE Flatten(_)
Flatten(ss) == IF Len(ss) = 0 THEN << >> ELSE Head(ss) \o Flatten(Tail(ss))

StrValues == { << DQ >> \o Flatten(u) \o << DQ >> : u \in SeqsUpTo(StrUnits, MaxStrLen) }

OtherValues == { << "1" >>, << "0", ".", "5" >>, << "true" >>, << "null" >>,
                 << LB, RB >>, << LSQ, "1", ",", SP, "2", RSQ >>,
                 << LB, DQ, "a", DQ, ":", "1", RB >> }

\* Valid JSON objects {"a": value}
EmbeddedObjects ==
    { << LB, DQ, "a", DQ, ":", SP >> \o v \o << RB >> : v \in StrValues \cup OtherValues }

\* Prose and markdown fences put around an object by a model.
Prefixes == { << >>, << "a", SP >>, << FENCE, "json", NL >>, << FENCE, NL >>,
              << "a", ":", NL, FENCE, "json", NL >> }

Suffixes == { << >>, << NL, FENCE >>, << SP, "a" >>, << NL, FENCE, NL, "a" >> }

\* ------------------------------------------------------------------------
\* Specification SpecScan: _extract_json_balanced, the mechanical repairs
\* and json.loads applied to one text (feasibility_checker.py 215-231)
\* ------------------------------------------------------------------------
NotLoaded == [ok |-> FALSE, val |-> << >>]

NoResult == [kind |-> "none", pairs |-> << >>]

NoAssessment ==
    [is_feasible |-> FALSE, confidence |-> 0, reasoning |-> << >>,
     estimated_tokens |-> << >>, risks |-> << >>, llm_response |-> << >>]

\* The variables of a part of the program that a specification leaves out.
ScanIdle ==
    /\ xpc = "idle" /\ text = << >> /\ embedded = << >> /\ json_str = << >>
    /\ fixed_json = << >> /\ loaded = NotLoaded

AssessIdle ==
    /\ apc = "idle" /\ job_reqs = "strings" /\ response_text = << >>
    /\ repair_text = << >> /\ llm_calls = 0 /\ repair_calls = 0 /\ cand = << >>
    /\ result = NoResult /\ raised_at = "none" /\ assessment = NoAssessment

PipeIdle ==
    /\ ppc = "idle" /\ min_confidence = 0 /\ jobs_with_feasibility = << >> /\ job_idx = 0
    /\ feasible = << >> /\ jobs_with_proposals = << >> /\ jobs_to_execute = << >>
    /\ results = << >>

ExecIdle ==
    /\ epc = "idle" /\ execute_script = << >> /\ pandas_importable = TRUE /\ runs = 0
    /\ returncode = -1 /\ error_text = << >> /\ repaired_script = << >>
    /\ retry_raised = FALSE /\ script_success = FALSE /\ script_error = "none"
    /\ status = "idle" /\ task_outcome = "script" /\ rec_success = FALSE
    /\ rec_error = "none" /\ run_outcome = "none" /\ stages = << >>

BatchIdle ==
    /\ bpc = "idle" /\ batch_n = 0 /\ batch_idx = 0 /\ assessments = << >>
    /\ to_execute = << >> /\ attempts = << >> /\ current_task = "none"
    /\ batch_results = << >>

NoParse == [source |-> "none", has_script |-> FALSE, script |-> << >>]

NoRecord == [status |-> "none", success |-> FALSE, has_script |-> FALSE,
             script |-> << >>, source |-> "none"]

TaskIdle ==
    /\ tpc = "idle" /\ task_response = << >> /\ task_raised = "none"
    /\ parse_result = NoParse /\ task_record = NoRecord

FixIdle ==
    /\ fpc = "idle" /\ fix_input = << >> /\ fix_output = << >> /\ fix_passes = 0

NotBuilt == [kind |-> "none", title |-> << >>, budget |-> << >>, reqs |-> << >>,
             delivs |-> << >>]

PostIdle ==
    /\ cpc = "idle" /\ file_content = << >> /\ built_from = NotBuilt
    /\ job_texts = << >> /\ post_idx = 0 /\ parsed_jobs = << >>

PropIdle ==
    /\ gpc = "idle" /\ proposal_response = << >> /\ proposal_parsed = << >>
    /\ proposal_from = "none" /\ proposal_out = << >>

DirIdle ==
    /\ dpc = "idle" /\ run_titles = << >> /\ save_idx = 0 /\ dir_files = {}

NotAssessed ==
    [assessment |-> "absent", feasibility |-> "absent", decision |-> "absent",
     proceed |-> "absent", prompt |-> "absent", proposal |-> FALSE]

RunIdle ==
    /\ rpc = "idle" /\ ad_extracted = "none" /\ ad_assessed = NotAssessed
    /\ run_status = "none" /\ executor_called = FALSE /\ run_returned = FALSE
    /\ exit_code = -1

HeapIdle ==
    /\ hpc = "idle" /\ heap = << >> /\ stage_jobs = << >> /\ stage_out = << >>
    /\ stage_idx = 0 /\ stage_entries = << >>

\* A specification of one part starts with every other part idle.
OnlyScan == AssessIdle /\ PipeIdle /\ ExecIdle /\ BatchIdle /\ TaskIdle /\ FixIdle /\ PostIdle /\ PropIdle /\ DirIdle /\ RunIdle /\ HeapIdle

OnlyAssess == ScanIdle /\ PipeIdle /\ ExecIdle /\ BatchIdle /\ TaskIdle /\ FixIdle /\ PostIdle /\ PropIdle /\ DirIdle /\ RunIdle /\ HeapIdle

OnlyPipe == ScanIdle /\ AssessIdle /\ ExecIdle /\ BatchIdle /\ TaskIdle /\ FixIdle /\ PostIdle /\ PropIdle /\ DirIdle /\ RunIdle /\ HeapIdle

OnlyExec == ScanIdle /\ AssessIdle /\ PipeIdle /\ BatchIdle /\ TaskIdle /\ FixIdle /\ PostIdle /\ PropIdle /\ DirIdle /\ RunIdle /\ HeapIdle

OnlyBatch == AssessIdle /\ PipeIdle /\ ExecIdle /\ ScanIdle /\ TaskIdle /\ FixIdle /\ PostIdle /\ PropIdle /\ DirIdle /\ RunIdle /\ HeapIdle

OnlyTask == AssessIdle /\ PipeIdle /\ ExecIdle /\ BatchIdle /\ ScanIdle /\ FixIdle /\ PostIdle /\ PropIdle /\ DirIdle /\ RunIdle /\ HeapIdle

OnlyFix == AssessIdle /\ PipeIdle /\ ExecIdle /\ BatchIdle /\ TaskIdle /\ ScanIdle /\ PostIdle /\ PropIdle /\ DirIdle /\ RunIdle /\ HeapIdle

OnlyPost == AssessIdle /\ PipeIdle /\ ExecIdle /\ BatchIdle /\ TaskIdle /\ FixIdle /\ ScanIdle /\ PropIdle /\ DirIdle /\ RunIdle /\ HeapIdle

OnlyProp == AssessIdle /\ PipeIdle /\ ExecIdle /\ BatchIdle /\ TaskIdle /\ FixIdle /\ PostIdle /\ ScanIdle /\ DirIdle /\ RunIdle /\ HeapIdle

OnlyDirs == AssessIdle /\ PipeIdle /\ ExecIdle /\ BatchIdle /\ TaskIdle /\ FixIdle /\ PostIdle /\ PropIdle /\ ScanIdle /\ RunIdle /\ HeapIdle

OnlyRun == AssessIdle /\ PipeIdle /\ ExecIdle /\ BatchIdle /\ TaskIdle /\ FixIdle /\ PostIdle /\ PropIdle /\ DirIdle /\ ScanIdle /\ HeapIdle

OnlyShare == AssessIdle /\ PipeIdle /\ ExecIdle /\ BatchIdle /\ TaskIdle /\ FixIdle /\ PostIdle /\ PropIdle /\ DirIdle /\ RunIdle /\ ScanIdle

ScanInit ==
    /\ xpc = "start"
    /\ \/ /\ text \in ScanTexts
          /\ embedded = << >>
       \/ \E pre \in Prefixes, obj \in EmbeddedObjects, suf \in Suffixes :
              /\ text = pre \o obj \o suf
              /\ embedded = obj
    /\ json_str = << >>
    /\ fixed_json = << >>
    /\ loaded = NotLoaded
    /\ OnlyScan

\* line 215
Extract ==
    /\ xpc = "start"
    /\ json_str' = ExtractJsonBalanced(text)
    /\ xpc' = "extracted"
    /\ UNCHANGED << text, embedded, fixed_json, loaded >>
    /\ UNCHANGED notScanVars

\* lines 221-225 (skipped by the early return of line 217-219 when nothing
\* was extracted)
Repair ==
    /\ xpc = "extracted"
    /\ json_str # << >>
    /\ fixed_json' = QuickFixes(json_str)
    /\ xpc' = "fixed"
    /\ UNCHANGED << text, embedded, json_str, loaded >>
    /\ UNCHANGED notScanVars

\* lines 228-231
Load ==
    /\ xpc = "fixed"
    /\ LET r == JsonLoads(fixed_json)
       IN  loaded' = [ok |-> r.ok, val |-> r.val]
    /\ xpc' = "parsed"
    /\ UNCHANGED << text, embedded, json_str, fixed_json >>
    /\ UNCHANGED notScanVars

ScanNext == Extract \/ Repair \/ Load

SpecScan == ScanInit /\ [][ScanNext]_vars

\* ------------------------------------------------------------------------
\* Specification SpecAssess: one call of check_job_feasibility with the
\* answers of the model chosen by the environment
\* ------------------------------------------------------------------------
\* Most fields in one answer of the model.
MaxFields == 2

\* Most calls of the model the environment answers.
MaxCalls == 3

Field(name, value) == << DQ, name, DQ, ":", SP >> \o value

\* Pieces an answer about feasibility is made of: JSON members, members
\* with malformed values, and prose.
FieldPhrases ==
    { Field("is_feasible", << "true" >>),
      Field("is_feasible", << "false" >>),
      Field("is_feasible", << DQ, "false", DQ >>),
      << "is_feasible", ":", SP, "True" >>,
      << "feasible", SP, "yes" >>,
      << "not", SP, "feasible", SP, "1" >>,
      Field("confidence", << "0", ".", "9" >>),
      Field("confidence", << "0", ".", "8", "." >>),
      Field("confidence", << DQ, "high", DQ >>),
      Field("risks", << LSQ, DQ, "a", DQ, RSQ >>),
      Field("estimated_tokens", << "5" >>),
      Field("reasoning", << DQ, "a", DQ >>) }

RECURSIVE JoinPhrases(_)
JoinPhrases(ps) ==
    IF Len(ps) = 0 THEN << >>
    ELSE IF Len(ps) = 1 THEN ps[1]
    ELSE ps[1] \o << ",", SP >> \o JoinPhrases(Tail(ps))

\* Up to MaxFields different phrases, separated by commas.
Bodies ==
    { JoinPhrases(ps) :
        ps \in { q \in SeqsUpTo(FieldPhrases, MaxFields) :
                   \A i, j \in 1..Len(q) : i # j => q[i] # q[j] } }

\* The ways a model wraps a body: bare, as an object, with a trailing
\* comma, truncated before the closing brace, fenced.
Shapes(b) ==
    { b,
      << LB >> \o b \o << RB >>,
      << LB >> \o b \o << ",", SP, RB >>,
      << LB >> \o b,
      << FENCE, "json", NL, LB >> \o b \o << RB, NL, FENCE >> }

Responses == UNION { Shapes(b) : b \in Bodies }

\* Answers to the repair prompt.
RepairResponses ==
    { << LB >> \o Field("is_feasible", << "true" >>) \o << ",", SP >>
               \o Field("confidence", << "0", ".", "9" >>) \o << RB >>,
      << LB >> \o Field("is_feasible", << "false" >>) \o << RB >>,
      << LB >> \o Field("confidence", << "null" >>) \o << RB >>,
      << LB >> \o Field("is_feasible", << "true" >>) \o << ",", RB >>,
      << FENCE, NL, LB >> \o Field("is_feasible", << "true" >>) \o << RB, NL, FENCE >>,
      << "a" >> }

AssessInit ==
    /\ apc = "start"
    /\ job_reqs \in {"strings", "mixed"}
    /\ response_text = << >>
    /\ repair_text = << >>
    /\ llm_calls = 0
    /\ repair_calls = 0
    /\ cand = << >>
    /\ result = NoResult
    /\ raised_at = "none"
    /\ assessment = NoAssessment
    /\ OnlyAssess

\* Lines 55-117: ', '.join(requirements) raises TypeError when the list
\* holds something that is not a string.
BuildPrompt ==
    /\ apc = "start"
    /\ IF job_reqs = "mixed"
       THEN apc' = "raised" /\ raised_at' = "prompt"
       ELSE apc' = "prompted" /\ UNCHANGED raised_at
    /\ UNCHANGED << job_reqs, response_text, repair_text, llm_calls, repair_calls,
                    cand, result, assessment >>
    /\ UNCHANGED notAssessVars

\* Line 120: the request either gives a text or raises.
CallModel ==
    /\ apc = "prompted"
    /\ llm_calls < MaxCalls
    /\ llm_calls' = llm_calls + 1
    /\ \/ \E r \in Responses :
              /\ response_text' = r
              /\ apc' = "responded"
              /\ UNCHANGED raised_at
       \/ /\ apc' = "raised"
          /\ raised_at' = "call"
          /\ UNCHANGED response_text
    /\ UNCHANGED << job_reqs, repair_text, repair_calls, cand, result, assessment >>
    /\ UNCHANGED notAssessVars

\* Lines 215-225
ExtractCandidate ==
    /\ apc = "responded"
    /\ LET js == ExtractJsonBalanced(response_text)
       IN  IF js = << >>
           THEN apc' = "scrape" /\ UNCHANGED cand
           ELSE apc' = "candidate" /\ cand' = QuickFixes(js)
    /\ UNCHANGED << job_reqs, response_text, repair_text, llm_calls, repair_calls,
                    result, raised_at, assessment >>
    /\ UNCHANGED notAssessVars

\* Lines 228-232
LoadCandidate ==
    /\ apc = "candidate"
    /\ LET r == JsonLoads(cand)
       IN  IF r.ok
           THEN apc' = "parsed" /\ result' = [kind |-> "json", pairs |-> r.pairs]
           ELSE apc' = "repairing" /\ UNCHANGED result
    /\ UNCHANGED << job_reqs, response_text, repair_text, llm_calls, repair_calls,
                    cand, raised_at, assessment >>
    /\ UNCHANGED notAssessVars

\* Lines 251-252 and 262-263: the repair request; an exception is caught.
RepairCall ==
    /\ apc = "repairing"
    /\ llm_calls < MaxCalls
    /\ llm_calls' = llm_calls + 1
    /\ repair_calls' = repair_calls + 1
    /\ \/ \E r \in RepairResponses :
              /\ repair_text' = r
              /\ apc' = "repaired"
       \/ /\ apc' = AfterFailedRepair
          /\ UNCHANGED repair_text
    /\ UNCHANGED << job_reqs, response_text, cand, result, raised_at, assessment >>
    /\ UNCHANGED notAssessVars

\* Lines 253-261: the repaired text is extracted and decoded as it is.
LoadRepaired ==
    /\ apc = "repaired"
    /\ LET js == ExtractJsonBalanced(repair_text)
           r  == JsonLoads(js)
       IN  IF js # << >> /\ r.ok
           THEN apc' = "parsed" /\ result' = [kind |-> "repaired", pairs |-> r.pairs]
           ELSE apc' = AfterFailedRepair /\ UNCHANGED result
    /\ UNCHANGED << job_reqs, response_text, repair_text, llm_calls, repair_calls,
                    cand, raised_at, assessment >>
    /\ UNCHANGED notAssessVars

\* Lines 219 and 267: _parse_text_response(response_text), outside any try
\* of _extract_and_parse_json.
TextParse ==
    /\ apc = "scrape"
    /\ LET r == ParseTextResponse(response_text)
       IN  IF r.raised
           THEN apc' = "raised" /\ raised_at' = "extract" /\ UNCHANGED result
           ELSE /\ apc' = "parsed"
                /\ result' = [kind |-> "scraped", pairs |-> r.pairs]
                /\ UNCHANGED raised_at
    /\ UNCHANGED << job_reqs, response_text, repair_text, llm_calls, repair_calls,
                    cand, assessment >>
    /\ UNCHANGED notAssessVars

\* Lines 126-137
Normalise ==
    /\ apc = "parsed"
    /\ IF NormaliseRaises(result.pairs)
       THEN apc' = "raised" /\ raised_at' = "normalise" /\ UNCHANGED assessment
       ELSE /\ apc' = "returned"
            /\ assessment' = Normalised(result.pairs, response_text)
            /\ UNCHANGED raised_at
    /\ UNCHANGED << job_reqs, response_text, repair_text, llm_calls, repair_calls,
                    cand, result >>
    /\ UNCHANGED notAssessVars

\* Lines 139-150
HandleException ==
    /\ apc = "raised"
    /\ apc' = "returned"
    /\ assessment' = ErrorAssessment(raised_at)
    /\ UNCHANGED << job_reqs, response_text, repair_text, llm_calls, repair_calls,
                    cand, result, raised_at >>
    /\ UNCHANGED notAssessVars

AssessNext ==
    \/ BuildPrompt
    \/ CallModel
    \/ ExtractCandidate
    \/ LoadCandidate
    \/ RepairCall
    \/ LoadRepaired
    \/ TextParse
    \/ Normalise
    \/ HandleException

SpecAssess == AssessInit /\ [][AssessNext]_vars

\* ------------------------------------------------------------------------
\* Specification SpecPipe: filter_feasible_jobs,
\* generate_proposals_for_feasible_jobs and execute_all_tasks on the list
\* returned by check_all_jobs_feasibility (main.py 72-129)
\* ------------------------------------------------------------------------
\* Most jobs in a run.
MaxJobs == 3

\* Confidences in hundredths, around the thresholds.
Confidences == {49, 50, 90}

\* main() passes 0.5 at lines 78, 103 and 128; 0.9 is the default of
\* execute_all_tasks.
Thresholds == {50, 90}

\* A job: whether it has the key 'feasibility' and what the assessment
\* holds (the values of .get('is_feasible', False) and
\* .get('confidence', 0)), and whether it has the keys 'proposal' and
\* 'execution'.
Job(has, f, c) ==
    [has_feasibility |-> has, is_feasible |-> f, confidence |-> c,
     proposal |-> FALSE, execution |-> FALSE]

JobsIn == { Job(FALSE, FALSE, 0) } \cup
          { Job(TRUE, f, c) : f \in BOOLEAN, c \in Confidences }

\* A variant of the filter's test with an exclusive boundary.
FilterAdmitsAbove(job, threshold) ==
    job.has_feasibility /\ job.is_feasible /\ job.confidence > threshold

\* feasibility_checker.py 498-499
FilterAdmits(job, threshold) ==
    job.has_feasibility /\ job.is_feasible /\ job.confidence >= threshold

\* A variant of the proposal test that does not look at the confidence.
ProposalAdmitsAnyConfidence(job, threshold) ==
    job.has_feasibility /\ job.is_feasible

\* proposal_generator.py 214-215
ProposalAdmits(job, threshold) ==
    job.has_feasibility /\ job.is_feasible /\ job.confidence >= threshold

\* task_executor.py 1414-1416
ExecutionAdmits(job, threshold) ==
    job.proposal /\ job.has_feasibility /\ job.is_feasible
        /\ job.confidence >= threshold

\* The elements of jobs for which job not in selected (lines 1449-1451).
NotSelected(jobs, selected) ==
    SelectSeq(jobs, LAMBDA job : \A k \in 1..Len(selected) : selected[k] # job)

PipeInit ==
    /\ ppc = "filter"
    /\ min_confidence \in Thresholds
    /\ jobs_with_feasibility \in SeqsUpTo(JobsIn, MaxJobs)
    /\ job_idx = 1
    /\ feasible = << >>
    /\ jobs_with_proposals = << >>
    /\ jobs_to_execute = << >>
    /\ results = << >>
    /\ OnlyPipe

\* One turn of the loop of filter_feasible_jobs (lines 496-500)
FilterJob ==
    /\ ppc = "filter"
    /\ job_idx <= Len(jobs_with_feasibility)
    /\ LET job == jobs_with_feasibility[job_idx]
       IN  feasible' = IF FilterAdmits(job, min_confidence)
                       THEN Append(feasible, job) ELSE feasible
    /\ job_idx' = job_idx + 1
    /\ UNCHANGED << ppc, min_confidence, jobs_with_feasibility, jobs_with_proposals,
                    jobs_to_execute, results >>
    /\ UNCHANGED notPipeVars

\* Line 502, and main() goes on to line 103.
FilterReturn ==
    /\ ppc = "filter"
    /\ job_idx > Len(jobs_with_feasibility)
    /\ ppc' = "propose"
    /\ job_idx' = 1
    /\ UNCHANGED << min_confidence, jobs_with_feasibility, feasible, jobs_with_proposals,
                    jobs_to_execute, results >>
    /\ UNCHANGED notPipeVars

\* One turn of the loop of generate_proposals_for_feasible_jobs (lines
\* 210-238): generate_proposal returns or raises.
ProposeJob ==
    /\ ppc = "propose"
    /\ job_idx <= Len(jobs_with_feasibility)
    /\ LET job == jobs_with_feasibility[job_idx]
       IN  IF ProposalAdmits(job, min_confidence)
           THEN \/ jobs_with_proposals' =
                       Append(jobs_with_proposals, [job EXCEPT !.proposal = TRUE])
                \/ jobs_with_proposals' = Append(jobs_with_proposals, job)
           ELSE jobs_with_proposals' = Append(jobs_with_proposals, job)
    /\ job_idx' = job_idx + 1
    /\ UNCHANGED << ppc, min_confidence, jobs_with_feasibility, feasible,
                    jobs_to_execute, results >>
    /\ UNCHANGED notPipeVars

\* generate_proposals_for_feasible_jobs returns and execute_all_tasks
\* selects its jobs (task_executor.py 1412-1417).
SelectJobs ==
    /\ ppc = "propose"
    /\ job_idx > Len(jobs_with_feasibility)
    /\ jobs_to_execute' =
           SelectSeq(jobs_with_proposals, LAMBDA job : ExecutionAdmits(job, min_confidence))
    /\ ppc' = "execute"
    /\ job_idx' = 1
    /\ UNCHANGED << min_confidence, jobs_with_feasibility, feasible, jobs_with_proposals,
                    results >>
    /\ UNCHANGED notPipeVars

\* One turn of the loop of lines 1421-1446: execute_task raises, or the
\* job with its execution is appended and _save_execution_outputs returns,
\* or it is appended and _save_execution_outputs raises.
ExecuteJob ==
    /\ ppc = "execute"
    /\ job_idx <= Len(jobs_to_execute)
    /\ LET job == jobs_to_execute[job_idx]
           job_with_execution == [job EXCEPT !.execution = TRUE]
       IN  \/ results' = Append(results, job)
           \/ results' = Append(results, job_with_execution)
           \/ results' = Append(Append(results, job_with_execution), job)
    /\ job_idx' = job_idx + 1
    /\ UNCHANGED << ppc, min_confidence, jobs_with_feasibility, feasible,
                    jobs_with_proposals, jobs_to_execute >>
    /\ UNCHANGED notPipeVars

\* Lines 1449-1451 and the return of line 1469.
AddBack ==
    /\ ppc = "execute"
    /\ job_idx > Len(jobs_to_execute)
    /\ results' = results \o NotSelected(jobs_with_proposals, jobs_to_execute)
    /\ ppc' = "done"
    /\ UNCHANGED << min_confidence, jobs_with_feasibility, job_idx, feasible,
                    jobs_with_proposals, jobs_to_execute >>
    /\ UNCHANGED notPipeVars

PipeNext == FilterJob \/ FilterReturn \/ ProposeJob \/ SelectJobs \/ ExecuteJob \/ AddBack

SpecPipe == PipeInit /\ [][PipeNext]_vars

\* ------------------------------------------------------------------------
\* Specification SpecExec: the script part of _save_execution_outputs
\* (task_executor.py 507-610); the interpreter that runs the script is the
\* environment.
\* ------------------------------------------------------------------------
\* Most lines of the script handed to _save_execution_outputs.
MaxScriptLines == 2

ScriptLines ==
    { << ImportLex, "json" >>,
      << ImportLex, "pandas" >>,
      << DefLex, "f", "(", "): pass" >>,
      << "x", " = ", "f", "(", ")" >>,
      << "y", " = ", "pd.", "read()" >>,
      << "x", " = 1" >> }

\* A script whose call of f comes before its only import line.
CallBeforeImport ==
    << << "x", " = ", "f", "(", ")" >>, << ImportLex, "json" >>, << "x", " = 1" >> >>

Scripts == (SeqsUpTo(ScriptLines, MaxScriptLines) \ { << >> }) \cup { CallBeforeImport }

\* What the script writes to stderr.
Stderrs ==
    { << >>,
      << "NameError", ": name '", "f", "' is not defined" >>,
      << "NameError", ": name '", "g", "' is not defined" >>,
      << "ModuleNotFoundError", ": No module named '", "pandas", "'" >>,
      << "symbol ", "Undefined", " here" >>,
      << "ZeroDivisionError" >> }

\* _generate_minimal_output_script (lines 1310-1350): it imports os,
\* pathlib and datetime, defines main and calls it.
MinimalScript ==
    << << ImportLex, "os" >>, << DefLex, "main", "(", "):" >>, << "main", "(", ")" >> >>

\* How execute_task (lines 300-413) can end.  "script": it returned a
\* record with a script in it.  "blank": it returned a record whose script
\* is empty, the longest fenced block of the response being blank (lines
\* 331-336).  "raised": the handler of lines 389-413 built the record,
\* which has no script and an empty llm_response.
TaskOutcomes == {"script", "blank", "raised"}

\* _generate_fallback_script(llm_response, llm_prompt) as line 497 calls
\* it: the longest fenced block of the response, stripped, when the
\* response has one (lines 980-984), else the minimal script.
FallbackScript(outcome) ==
    IF outcome = "blank" THEN << >> ELSE MinimalScript

\* A variant of the handlers that reports every exception alike.
HandlerErrorGeneric(e) == "exception"

\* The handlers of lines 597-604: the message kept in script_error.
HandlerError(e) ==
    IF e = "timeout" THEN "timeout" ELSE "exception"

\* One completed stage of the job and the script text it worked on.
Stage(name, script) == [stage |-> name, script |-> script]

\* The stages of execute_task (lines 300-413) behind each outcome: the
\* prompt is built at line 313, the model is called at line 322 and the
\* script is taken from the response at lines 325-336.  When the handler
\* of line 389 built the record, the exception came from one of the three.
TaskStages(outcome) ==
    IF outcome = "raised"
    THEN { << >>, << Stage("prompt", << >>) >>,
           << Stage("prompt", << >>), Stage("model_call", << >>) >> }
    ELSE { << Stage("prompt", << >>), Stage("model_call", << >>),
              Stage("extract", << >>) >> }

ExecInit ==
    /\ epc = "entry"
    /\ task_outcome \in TaskOutcomes
    /\ execute_script \in IF task_outcome = "script" THEN Scripts ELSE { << >> }
    /\ pandas_importable \in BOOLEAN
    /\ runs = 0
    /\ returncode = -1
    /\ error_text = << >>
    /\ repaired_script = << >>
    /\ retry_raised = FALSE
    /\ script_success = FALSE
    /\ script_error = "none"
    /\ status = IF task_outcome = "raised" THEN "failed" ELSE "completed"
    /\ rec_success = (task_outcome # "raised")
    /\ rec_error = IF task_outcome = "raised" THEN "model" ELSE "none"
    /\ run_outcome = "none"
    /\ stages \in TaskStages(task_outcome)
    /\ OnlyExec

\* Lines 490-507 and 610-611: a record without a script gets the fallback
\* script, and with it status 'completed' and success True; when the
\* fallback is empty too no script is written or run.
Fallback ==
    /\ epc = "entry"
    /\ IF execute_script # << >>
       THEN /\ epc' = "start"
            /\ UNCHANGED << execute_script, status, rec_success >>
       ELSE IF FallbackScript(task_outcome) # << >>
       THEN /\ execute_script' = FallbackScript(task_outcome)
            /\ status' = "completed"
            /\ rec_success' = TRUE
            /\ epc' = "start"
       ELSE /\ epc' = "done"
            /\ UNCHANGED << execute_script, status, rec_success >>
    /\ UNCHANGED << pandas_importable, runs, returncode, error_text, repaired_script,
                    retry_raised, script_success, script_error, task_outcome,
                    rec_error, run_outcome >>
    /\ UNCHANGED stages
    /\ UNCHANGED notExecVars

\* Lines 512-524: _repair_script, the script is written, and the
\* dependencies are installed outside the try of line 530.
PrepareScript ==
    /\ epc = "start"
    /\ execute_script' = RepairScript(execute_script)
    /\ epc' = IF InstallRaises(RepairScript(execute_script), pandas_importable)
              THEN "propagated" ELSE "ready"
    /\ UNCHANGED << pandas_importable, runs, returncode, error_text, repaired_script,
                    retry_raised, script_success, script_error, status, task_outcome,
                    rec_success, rec_error, run_outcome >>
    /\ stages' = stages \o
           << Stage("fix_paths", execute_script),
              Stage("repair_imports", RepairScript(execute_script)),
              Stage("write", RepairScript(execute_script)) >> \o
           IF InstallRaises(RepairScript(execute_script), pandas_importable)
           THEN << >> ELSE << Stage("install", RepairScript(execute_script)) >>
    /\ UNCHANGED notExecVars

\* Lines 536-563 and 597-604: the first run exits with 0, exits with
\* another code and some stderr, times out, or cannot be started.
FirstRun ==
    /\ epc = "ready"
    /\ runs' = runs + 1
    /\ \/ /\ run_outcome' = "exit0"
          /\ returncode' = 0
          /\ script_success' = TRUE
          /\ epc' = "finished"
          /\ UNCHANGED << error_text, script_error >>
       \/ \E err \in Stderrs :
              /\ run_outcome' = "nonzero"
              /\ returncode' = 1
              /\ error_text' = err
              /\ script_error' = IF err = << >> THEN "exit code" ELSE "stderr"
              /\ epc' = "failed_first"
              /\ UNCHANGED script_success
       \/ \E e \in {"timeout", "oserror"} :
              /\ run_outcome' = e
              /\ script_error' = HandlerError(e)
              /\ epc' = "finished"
              /\ UNCHANGED << returncode, error_text, script_success >>
    /\ UNCHANGED << execute_script, pandas_importable, repaired_script, retry_raised,
                    status, task_outcome, rec_success, rec_error >>
    /\ stages' = Append(stages, Stage("run", execute_script))
    /\ UNCHANGED notExecVars

\* Lines 565-571
RepairErrors ==
    /\ epc = "failed_first"
    /\ IF error_text # << >> /\ ErrorLooksFixable(error_text)
       THEN /\ repaired_script' = RepairScriptErrors(execute_script, error_text)
            /\ epc' = IF repaired_script' # execute_script THEN "retrying" ELSE "finished"
       ELSE /\ epc' = "finished"
            /\ UNCHANGED repaired_script
    /\ UNCHANGED << execute_script, pandas_importable, runs, returncode, error_text,
                    retry_raised, script_success, script_error, status, task_outcome,
                    rec_success, rec_error, run_outcome >>
    /\ UNCHANGED stages
    /\ UNCHANGED notExecVars

\* Lines 573-576: the repaired script is written and its dependencies
\* are installed, inside the try; an exception of either goes to the
\* handler of lines 601-604.
PrepareRetry ==
    /\ epc = "retrying"
    /\ \/ /\ ~InstallRaises(repaired_script, pandas_importable)
          /\ epc' = "retry_ready"
          /\ stages' = stages \o << Stage("write", repaired_script),
                                    Stage("install", repaired_script) >>
          /\ UNCHANGED << retry_raised, script_error >>
       \/ /\ retry_raised' = TRUE
          /\ script_error' = HandlerError("raised")
          /\ epc' = "finished"
          /\ stages' \in {stages, Append(stages, Stage("write", repaired_script))}
    /\ UNCHANGED << execute_script, pandas_importable, runs, returncode, error_text,
                    repaired_script, script_success, status, task_outcome,
                    rec_success, rec_error, run_outcome >>
    /\ UNCHANGED notExecVars

\* Lines 578-604: the second run.
RetryRun ==
    /\ epc = "retry_ready"
    /\ runs' = runs + 1
    /\ \/ /\ run_outcome' = "exit0"
          /\ script_success' = TRUE
          /\ script_error' = "none"
       \/ /\ run_outcome' = "nonzero"
          /\ UNCHANGED << script_success, script_error >>
       \/ \E e \in {"timeout", "oserror"} :
              /\ run_outcome' = e
              /\ script_error' = HandlerError(e)
              /\ UNCHANGED script_success
    /\ epc' = "finished"
    /\ UNCHANGED << execute_script, pandas_importable, returncode, error_text,
                    repaired_script, retry_raised, status, task_outcome,
                    rec_success, rec_error >>
    /\ stages' = Append(stages, Stage("run", repaired_script))
    /\ UNCHANGED notExecVars

\* Lines 607-610
UpdateResult ==
    /\ epc = "finished"
    /\ rec_success' = script_success
    /\ rec_error' = IF script_success THEN rec_error ELSE script_error
    /\ status' = IF script_success THEN status ELSE "failed"
    /\ epc' = "done"
    /\ UNCHANGED << execute_script, pandas_importable, runs, returncode, error_text,
                    repaired_script, retry_raised, script_success, script_error,
                    task_outcome, run_outcome >>
    /\ UNCHANGED stages
    /\ UNCHANGED notExecVars

ExecNext ==
    \/ Fallback
    \/ PrepareScript
    \/ FirstRun
    \/ RepairErrors
    \/ PrepareRetry
    \/ RetryRun
    \/ UpdateResult

SpecExec == ExecInit /\ [][ExecNext]_vars

\* ------------------------------------------------------------------------
\* Specification SpecBatch: the loop of check_all_jobs_feasibility
\* (feasibility_checker.py 447-453) and the loop of execute_all_tasks
\* (task_executor.py 1421-1451) over one list of jobs.  Jobs are numbered
\* 1..batch_n.  Every call made in a turn of a loop ends: the model call
\* has a timeout of 60 seconds (llm_client.py 88-113) and subprocess.run
\* one of 300 seconds (task_executor.py 541, 583).
\* ------------------------------------------------------------------------
\* Most jobs in the list.
MaxBatch == 3

\* How check_job_feasibility ends for a job: it returns an assessment that
\* passes the test of execute_all_tasks, one that does not, or the
\* assessment of its handler (lines 139-150), which does not.
AssessOutcomes == {"feasible", "infeasible", "defaulted"}

\* The jobs that can pass lines 1412-1417: those assessed feasible.
FeasibleJobs(outcomes) ==
    { k \in 1..Len(outcomes) : outcomes[k] = "feasible" }

\* The members of S in increasing order.
RECURSIVE InOrder(_)
InOrder(S) ==
    IF S = {} THEN << >>
    ELSE LET k == Least(S) IN << k >> \o InOrder(S \ {k})

\* execution_result['status'] as execute_task returns it (lines 379, 409).
TaskStatus(t) == IF t = "raised" THEN "failed" ELSE "completed"

\* How _save_execution_outputs can end after execute_task ended with t.
\* "no_script": nothing to run (line 611).  "exit0", "nonzero", "timeout",
\* "oserror": the last run of the script.  "retry_exit0": the retry
\* succeeded.  "write_raises", "install_raises": an exception of lines
\* 514-524 leaves the function; the placeholder script imports no package
\* that is installed on demand.
SaveOutcomes(t) ==
    IF t = "blank" THEN {"no_script"}
    ELSE IF t = "raised"
    THEN {"exit0", "nonzero", "timeout", "oserror", "write_raises"}
    ELSE {"exit0", "nonzero", "retry_exit0", "timeout", "oserror", "write_raises",
          "install_raises"}

SaveRaises(o) == o \in {"write_raises", "install_raises"}

\* execution_result['status'] when _save_execution_outputs is left (lines
\* 503 and 607-610).
SavedStatus(t, o) ==
    IF o \in {"nonzero", "timeout", "oserror"} THEN "failed" ELSE "completed"

\* A variant in which an exception of one job ends the loop.
AfterJobExceptionAbort == "aborted"

\* Lines 1445-1446: the exception is caught and the loop goes on.
AfterJobException == "task"

BatchInit ==
    /\ bpc = "assess"
    /\ batch_n \in 0..MaxBatch
    /\ batch_idx = 1
    /\ assessments = << >>
    /\ to_execute = << >>
    /\ attempts = << >>
    /\ current_task = "none"
    /\ batch_results = << >>
    /\ OnlyBatch

\* One turn of the loop of check_all_jobs_feasibility (lines 447-453):
\* check_job_feasibility catches whatever is raised inside it.
AssessJob ==
    /\ bpc = "assess"
    /\ batch_idx <= batch_n
    /\ \E o \in AssessOutcomes : assessments' = Append(assessments, o)
    /\ batch_idx' = batch_idx + 1
    /\ UNCHANGED << bpc, batch_n, to_execute, attempts, current_task, batch_results >>
    /\ UNCHANGED notBatchVars

\* check_all_jobs_feasibility returns (line 481); main() generates the
\* proposals, and execute_all_tasks selects the feasible jobs that got one
\* (task_executor.py 1412-1417).
SelectBatch ==
    /\ bpc = "assess"
    /\ batch_idx > batch_n
    /\ \E S \in SUBSET FeasibleJobs(assessments) : to_execute' = InOrder(S)
    /\ bpc' = "task"
    /\ batch_idx' = 1
    /\ UNCHANGED << batch_n, assessments, attempts, current_task, batch_results >>
    /\ UNCHANGED notBatchVars

\* Lines 1424-1428: execute_task returns a record, whatever happened in
\* it, and the job is appended with the record.
RunTask ==
    /\ bpc = "task"
    /\ batch_idx <= Len(to_execute)
    /\ \E t \in TaskOutcomes :
           /\ current_task' = t
           /\ batch_results' = Append(batch_results,
                  [job |-> to_execute[batch_idx], status |-> TaskStatus(t)])
    /\ attempts' = Append(attempts, to_execute[batch_idx])
    /\ bpc' = "save"
    /\ UNCHANGED << batch_n, batch_idx, assessments, to_execute >>
    /\ UNCHANGED notBatchVars

\* Lines 1438-1446: _save_execution_outputs updates the record in place
\* and returns, or raises; then the handler appends the job once more,
\* without a record.
SaveOutputs ==
    /\ bpc = "save"
    /\ \E o \in SaveOutcomes(current_task) :
           LET updated == [batch_results EXCEPT
                              ![Len(batch_results)].status = SavedStatus(current_task, o)]
           IN  IF SaveRaises(o)
               THEN /\ batch_results' =
                           Append(updated, [job |-> to_execute[batch_idx], status |-> "none"])
                    /\ bpc' = AfterJobException
               ELSE /\ batch_results' = updated
                    /\ bpc' = "task"
    /\ batch_idx' = batch_idx + 1
    /\ current_task' = "none"
    /\ UNCHANGED << batch_n, assessments, to_execute, attempts >>
    /\ UNCHANGED notBatchVars

\* Lines 1449-1451 and the return of line 1469.
ReturnBatch ==
    /\ bpc = "task"
    /\ batch_idx > Len(to_execute)
    /\ batch_results' = batch_results \o
           [k \in 1..Len(InOrder((1..batch_n) \ { to_execute[j] : j \in 1..Len(to_execute) })) |->
               [job |-> InOrder((1..batch_n) \ { to_execute[j] : j \in 1..Len(to_execute) })[k],
                status |-> "none"]]
    /\ bpc' = "returned"
    /\ UNCHANGED << batch_n, batch_idx, assessments, to_execute, attempts, current_task >>
    /\ UNCHANGED notBatchVars

BatchNext == AssessJob \/ SelectBatch \/ RunTask \/ SaveOutputs \/ ReturnBatch

\* Every step of the loops ends, so a step that can be taken is taken.
SpecBatch == BatchInit /\ [][BatchNext]_vars /\ WF_vars(BatchNext)

\* ------------------------------------------------------------------------
\* execute_task and _parse_execution_response (task_executor.py 300-477),
\* _generate_fallback_script (975-1018)                          (SpecTask)
\* ------------------------------------------------------------------------
\* The backtick is one lexeme.
BT == "<tick>"

ScriptKey == "execute_script"

\* A title of 150 characters is one lexeme.
LongTitle == "<title of 150 characters>"

\* len() of a lexeme in characters
LexLen(l) ==
    CASE l = ScriptKey -> 14
      [] l = "python"  -> 6
      [] l = "json"    -> 4
      [] l = "note"    -> 4
      [] l = FENCE     -> 3
      [] l = "yy"      -> 2
      [] l = "Build a thing"         -> 13
      [] l = "Logo for awarded firm" -> 21
      [] l = LongTitle               -> 150
      [] l = "Open"                  -> 4
      [] l = "Awarded"               -> 7
      [] l = "OPPORTUNITY AWARDED"   -> 19
      [] l = "Posted 2 days ago"     -> 17
      [] l = "$50 USD"               -> 7
      [] l = "<rupee>500"            -> 4
      [] l = "<pound>50"             -> 3
      [] l = "FIXED PRICE"           -> 11
      [] l = "Paid on delivery"      -> 16
      [] l = "Some description here" -> 21
      [] l = "Requirements"          -> 12
      [] l = "Deliverables"          -> 12
      [] l = "Ideal Skills and Experience" -> 27
      [] l = "Acceptance Criteria"   -> 19
      [] l = "Do X"                  -> 4
      [] l = "SQL"                   -> 3
      [] l = "Use Y"                 -> 5
      [] l = "File Y"                -> 6
      [] OTHER         -> 1

\* len(t) of a text in characters
RECURSIVE CharLen(_)
CharLen(t) == IF t = << >> THEN 0 ELSE LexLen(Head(t)) + CharLen(Tail(t))

\* The first index c >= s with a newline at c and a fence marker at c + 1
\* (0 when there is none): where the lazy (.*?) followed by \n<fence> stops.
BlockClose(t, s) ==
    Least({ c \in s..(Len(t) - 1) : t[c] = NL /\ t[c+1] = FENCE })

\* re.findall(r'<fence>(?:label)?\s*\n(.*?)\n<fence>', t, re.DOTALL): the
\* contents of the fenced blocks, left to right.  After the marker and the
\* optional label, \s* is greedy: the newline that the pattern names is the
\* last one of the whitespace run after which a closing fence still follows.
RECURSIVE FencedBlocks(_, _, _)
FencedBlocks(t, i, label) ==
    IF i > Len(t) THEN << >>
    ELSE IF t[i] # FENCE THEN FencedBlocks(t, i + 1, label)
    ELSE LET a == IF i + 1 <= Len(t) /\ t[i+1] = label THEN i + 2 ELSE i + 1
             e == SkipWS(t, a)
             starts == { s \in (a+1)..e : t[s-1] = NL /\ BlockClose(t, s) # 0 }
         IN  IF starts = {} THEN FencedBlocks(t, i + 1, label)
             ELSE LET s == Greatest(starts)
                      c == BlockClose(t, s)
                  IN  << Slice(t, s, c - 1) >> \o FencedBlocks(t, c + 2, label)

\* re.sub of  <tick>([^<tick>]+)<tick>  by group 1 (lines 433 and 446): a backtick, a
\* non-empty run without backticks and a backtick lose the two backticks.
\* (The texts it is applied to here hold no fence marker.)
RECURSIVE StripBackticks(_, _)
StripBackticks(t, i) ==
    IF i > Len(t) THEN << >>
    ELSE LET close == Least({ j \in (i+1)..Len(t) : t[j] = BT })
         IN  IF t[i] = BT /\ close > i + 1
             THEN Slice(t, i + 1, close - 1) \o StripBackticks(t, close + 1)
             ELSE << t[i] >> \o StripBackticks(t, i + 1)

\* Lines 428-433 and 442-446
TaskQuickFixes(js) == StripBackticks(QuickFixes(js), 1)

\* A script text as a value of the result dict
TextValue(ls) == << "#str" >> \o ls \o << "#end" >>

\* _generate_minimal_output_script (1310-1350): a fixed, non-empty script
MinimalOutputText == << "<minimal output script>" >>

\* max(blocks, key=len): the first block of the greatest length
LongestBlock(blocks) ==
    blocks[CHOOSE i \in 1..Len(blocks) :
               /\ \A j \in 1..Len(blocks) : CharLen(blocks[j]) <= CharLen(blocks[i])
               /\ \A j \in 1..(i-1) : CharLen(blocks[j]) < CharLen(blocks[i])]

\* Lines 425-440: the first fenced block that json.loads accepts after the
\* repairs (ok = FALSE: none).
RECURSIVE FirstDecodedBlock(_, _)
FirstDecodedBlock(blocks, i) ==
    IF i > Len(blocks) THEN ParseFail
    ELSE LET r == JsonLoads(TaskQuickFixes(Strip(blocks[i])))
         IN  IF r.ok THEN r ELSE FirstDecodedBlock(blocks, i + 1)

\* Lines 436-438 and 449-451: parsed['success'] = True raises TypeError
\* unless the decoded value is a dict; the dict is returned as it is.
FromDecoded(r) ==
    IF r.val[1] # "#obj"
    THEN [raised |-> TRUE, source |-> "none", has_script |-> FALSE, script |-> << >>]
    ELSE [raised |-> FALSE, source |-> "json",
          has_script |-> HasKey(r.pairs, ScriptKey),
          script |-> IF HasKey(r.pairs, ScriptKey) THEN Get(r.pairs, ScriptKey)
                     ELSE << >>]

FromBlock(blocks) ==
    [raised |-> FALSE, source |-> "block", has_script |-> TRUE,
     script |-> TextValue(Strip(LongestBlock(blocks)))]

\* _generate_fallback_script (975-1018)
GenerateFallbackScript(resp) ==
    LET python_blocks == FencedBlocks(resp, 1, "python")
    IN  IF resp # << >> /\ python_blocks # << >>
        THEN FromBlock(python_blocks)
        ELSE [raised |-> FALSE, source |-> "placeholder", has_script |-> TRUE,
              script |-> TextValue(MinimalOutputText)]

\* _parse_execution_response (416-477)
ParseExecutionResponse(resp) ==
    LET json_blocks   == FencedBlocks(resp, 1, "json")
        fromBlock     == FirstDecodedBlock(json_blocks, 1)
        balanced      == ExtractJsonBalanced(resp)
        fromBalanced  == IF balanced # << >> THEN JsonLoads(TaskQuickFixes(balanced))
                         ELSE ParseFail
        python_blocks == FencedBlocks(resp, 1, "python")
    IN  IF fromBlock.ok THEN FromDecoded(fromBlock)
        ELSE IF fromBalanced.ok THEN FromDecoded(fromBalanced)
        ELSE IF python_blocks # << >> /\ Strip(LongestBlock(python_blocks)) # << >>
             THEN FromBlock(python_blocks)
        ELSE GenerateFallbackScript(resp)

\* bool() of result.get('execute_script')
ScriptTruthy(r) == r.has_script /\ PyBool(r.script)

\* Lines 327-345: a result without a usable script is replaced
DirectExtraction(resp) ==
    LET python_blocks == FencedBlocks(resp, 1, "python")
    IN  IF python_blocks # << >> THEN FromBlock(python_blocks)
        ELSE GenerateFallbackScript(resp)

\* The model's answers: up to MaxParts parts, one per line.
MaxParts == 2

ObjScript == << LB, DQ, ScriptKey, DQ, ":", SP, DQ, "x", DQ, RB >>

ObjEmpty == << LB, RB >>

ObjComma == << LB, DQ, ScriptKey, DQ, ":", DQ, "x", DQ, ",", RB >>

ObjTicks == << LB, DQ, ScriptKey, DQ, ":", DQ, BT, "x", BT, DQ, RB >>

ObjNumber == << LB, DQ, ScriptKey, DQ, ":", "5", RB >>

ObjBroken == << LB, DQ, ScriptKey, DQ, "x", RB >>

Block(label, content) == << FENCE >> \o label \o << NL >> \o content \o << NL, FENCE >>

ResponseParts ==
    { ObjScript, ObjEmpty, ObjComma, ObjTicks, ObjNumber, ObjBroken, << "note" >>,
      << FENCE, "x", FENCE >>,
      Block(<< >>, << "x" >>), Block(<< "python" >>, << "x" >>),
      Block(<< "python" >>, << "yy" >>), Block(<< >>, << SP >>),
      Block(<< >>, << SP, "x" >>), Block(<< >>, ObjBroken),
      Block(<< "json" >>, ObjScript), Block(<< "json" >>, ObjEmpty),
      Block(<< "json" >>, << LSQ, "1", RSQ >>) }

RECURSIVE JoinLines(_)
JoinLines(ps) ==
    IF ps = << >> THEN << >>
    ELSE IF Len(ps) = 1 THEN ps[1]
    ELSE ps[1] \o << NL >> \o JoinLines(Tail(ps))

TaskResponses == { JoinLines(ps) : ps \in SeqsUpTo(ResponseParts, MaxParts) }

TaskInit ==
    /\ tpc = "start"
    /\ task_response \in TaskResponses
    /\ task_raised = "none"
    /\ parse_result = NoParse
    /\ task_record = NoRecord
    /\ OnlyTask

\* Line 321: llm.chat returns the answer or raises
CallTaskModel ==
    /\ tpc = "start"
    /\ \/ tpc' = "responded" /\ task_raised' = "none"
       \/ tpc' = "raised" /\ task_raised' = "chat"
    /\ UNCHANGED << task_response, parse_result, task_record, notTaskVars >>

\* Line 324
ParseResponse ==
    /\ tpc = "responded"
    /\ LET r == ParseExecutionResponse(task_response)
       IN  IF r.raised
           THEN /\ tpc' = "raised"
                /\ task_raised' = "parse"
                /\ UNCHANGED parse_result
           ELSE /\ tpc' = "parsed"
                /\ parse_result' = [source |-> r.source, has_script |-> r.has_script,
                                    script |-> r.script]
                /\ UNCHANGED task_raised
    /\ UNCHANGED << task_response, task_record, notTaskVars >>

\* Lines 327-345
ExtractDirectly ==
    /\ tpc = "parsed"
    /\ tpc' = "extracted"
    /\ IF ScriptTruthy(parse_result) THEN UNCHANGED parse_result
       ELSE LET r == DirectExtraction(task_response)
            IN  parse_result' = [source |-> r.source, has_script |-> r.has_script,
                                 script |-> r.script]
    /\ UNCHANGED << task_response, task_raised, task_record, notTaskVars >>

\* Lines 347-387
BuildRecord ==
    /\ tpc = "extracted"
    /\ tpc' = "returned"
    /\ task_record' = [status |-> "completed", success |-> TRUE, has_script |-> TRUE,
                       script |-> IF parse_result.has_script THEN parse_result.script
                                  ELSE TextValue(<< >>),
                       source |-> parse_result.source]
    /\ UNCHANGED << task_response, task_raised, parse_result, notTaskVars >>

\* Lines 389-413
HandleTaskException ==
    /\ tpc = "raised"
    /\ tpc' = "returned"
    /\ task_record' = [status |-> "failed", success |-> FALSE, has_script |-> FALSE,
                       script |-> << >>, source |-> "none"]
    /\ UNCHANGED << task_response, task_raised, parse_result, notTaskVars >>

TaskNext ==
    \/ CallTaskModel
    \/ ParseResponse
    \/ ExtractDirectly
    \/ BuildRecord
    \/ HandleTaskException

SpecTask == TaskInit /\ [][TaskNext]_vars

\* ------------------------------------------------------------------------
\* _fix_paths_in_script (task_executor.py 873-972), for a job whose input
\* folder X was found                                             (SpecFix)
\* ------------------------------------------------------------------------
\* relative_path (line 887) is one lexeme.
REL == "../../synthetic/X"

Quotes == {SQ, DQ}

\* The text of line 931 and the openings of the replacement texts of lines
\* 940, 947 and 954.
ScriptDirLine == "script_dir = os.path.dirname(os.path.abspath(__file__))"

AbsJoinOpen == "os.path.abspath(os.path.join(script_dir,"

OutJoinOpen == "os.path.join(script_dir,"

ImportOs == "import os"

\* The extension of a lexeme that matches \w+\.ext ("none": no file name)
FileExt(l) ==
    CASE l = "data.csv" -> "csv"
      [] l = "r.txt"    -> "txt"
      [] OTHER          -> "none"

\* Lexemes that match \w+
FixWords == {"df", "p", "x", "INPUT_FILE", "input_file"}

\* The index of the first quote at or after i (0: none): where [^'"]+ ends.
QuoteFrom(t, i) == Least({ j \in i..Len(t) : t[j] \in Quotes })

\* str.replace / re.sub of relative_path/relative_path by relative_path
\* (lines 892-894, 897-901, 966-970): matches do not overlap.
RECURSIVE CollapseDup(_, _)
CollapseDup(t, i) ==
    IF i > Len(t) THEN << >>
    ELSE IF i + 2 <= Len(t) /\ t[i] = REL /\ t[i+1] = "/" /\ t[i+2] = REL
         THEN << REL >> \o CollapseDup(t, i + 3)
         ELSE << t[i] >> \o CollapseDup(t, i + 1)

\* Lines 906-910: a quoted bare file name of one extension gets the path.
RECURSIVE SubFileName(_, _, _)
SubFileName(t, ext, i) ==
    IF i > Len(t) THEN << >>
    ELSE IF /\ i + 2 <= Len(t) /\ t[i] \in Quotes
            /\ FileExt(t[i+1]) = ext /\ t[i+2] = t[i]
         THEN << t[i], REL, "/", t[i+1], t[i] >> \o SubFileName(t, ext, i + 3)
         ELSE << t[i] >> \o SubFileName(t, ext, i + 1)

\* Line 912: 'input/...' in matching quotes gets the path instead of input/.
RECURSIVE SubInputDir(_, _)
SubInputDir(t, i) ==
    IF i > Len(t) THEN << >>
    ELSE LET q == QuoteFrom(t, i + 2)
         IN  IF /\ i + 1 <= Len(t) /\ t[i] \in Quotes /\ t[i+1] = "input/"
                /\ q > i + 2 /\ t[q] = t[i]
             THEN << t[i], REL, "/" >> \o Slice(t, i + 2, q - 1) \o << t[i] >>
                      \o SubInputDir(t, q + 1)
             ELSE << t[i] >> \o SubInputDir(t, i + 1)

\* The index of the opening quote when  \s*=\s*['"]  matches from i (0: no)
AssignQuote(t, i) ==
    LET e == SkipWS(t, i)
        v == SkipWS(t, e + 1)
    IN  IF e <= Len(t) /\ t[e] = "=" /\ v <= Len(t) /\ t[v] \in Quotes THEN v ELSE 0

\* Lines 914 and 916: name = 'value' with a value that does not start with
\* ../ is rewritten to name = 'relative_path/value'.
RECURSIVE SubInputVar(_, _, _)
SubInputVar(t, name, i) ==
    IF i > Len(t) THEN << >>
    ELSE LET o == IF t[i] = name THEN AssignQuote(t, i + 1) ELSE 0
             q == IF o = 0 THEN 0 ELSE QuoteFrom(t, o + 1)
         IN  IF o # 0 /\ q > o + 1 /\ t[o+1] # REL
             THEN << name, SP, "=", SP, SQ, REL, "/" >> \o Slice(t, o + 1, q - 1)
                      \o << SQ >> \o SubInputVar(t, name, q + 1)
             ELSE << t[i] >> \o SubInputVar(t, name, i + 1)

Contains(t, S) == \E i \in 1..Len(t) : t[i] \in S

\* Lines 924-934: the script_dir line goes after the first import os line.
AddScriptDir(t) ==
    LET imports == { i \in 1..Len(t) :
                       t[i] = ImportOs /\ \E n \in (i+1)..Len(t) : t[n] = NL }
        first   == Least(imports)
        after   == Least({ n \in (first+1)..Len(t) : t[n] = NL })
    IN  IF Contains(t, {ScriptDirLine}) THEN t
        ELSE IF imports = {} THEN t
        ELSE IF Contains(t, {ScriptDirLine, AbsJoinOpen, OutJoinOpen, "script_dir"}) THEN t
        ELSE Slice(t, 1, after)
                 \o << NL, "# Get script directory for relative paths", NL,
                       ScriptDirLine, NL >>
                 \o Slice(t, after + 1, Len(t))

\* os.path.abspath(os.path.join(script_dir, 'relative_path', 'rest'))
AbsJoin(rest) ==
    << AbsJoinOpen, SP, SQ, REL, SQ, ",", SP, SQ >> \o rest \o << SQ, "))" >>

\* The index of the closing quote when  ['"]relative_path/([^'"]+)['"]
\* matches with its opening quote at o (0: no match)
PathClose(t, o) ==
    LET q == QuoteFrom(t, o + 3)
    IN  IF /\ o + 2 <= Len(t) /\ t[o] \in Quotes /\ t[o+1] = REL /\ t[o+2] = "/"
           /\ q > o + 3
        THEN q ELSE 0

\* Lines 938-942: name = 'relative_path/rest'
RECURSIVE SubAssignedPath(_, _)
SubAssignedPath(t, i) ==
    IF i > Len(t) THEN << >>
    ELSE LET o == IF t[i] \in FixWords THEN AssignQuote(t, i + 1) ELSE 0
             q == IF o = 0 THEN 0 ELSE PathClose(t, o)
         IN  IF q # 0
             THEN << t[i], SP, "=", SP >> \o AbsJoin(Slice(t, o + 3, q - 1))
                      \o SubAssignedPath(t, q + 1)
             ELSE << t[i] >> \o SubAssignedPath(t, i + 1)

\* Lines 945-949: every other 'relative_path/rest'
RECURSIVE SubBarePath(_, _)
SubBarePath(t, i) ==
    IF i > Len(t) THEN << >>
    ELSE LET q == PathClose(t, i)
         IN  IF q # 0
             THEN AbsJoin(Slice(t, i + 3, q - 1)) \o SubBarePath(t, q + 1)
             ELSE << t[i] >> \o SubBarePath(t, i + 1)

\* The lookahead  (?!\s*\)\s*#)  at index i
ClosedBeforeComment(t, i) ==
    LET c == SkipWS(t, i)
        h == SkipWS(t, c + 1)
    IN  c <= Len(t) /\ t[c] = ")" /\ h <= Len(t) /\ t[h] = "#"

\* Lines 952-956: 'output/rest' in matching quotes
RECURSIVE SubOutputPath(_, _)
SubOutputPath(t, i) ==
    IF i > Len(t) THEN << >>
    ELSE LET q == QuoteFrom(t, i + 2)
         IN  IF /\ i + 1 <= Len(t) /\ t[i] \in Quotes /\ t[i+1] = "output/"
                /\ q > i + 2 /\ t[q] = t[i] /\ ~ClosedBeforeComment(t, q + 1)
             THEN << OutJoinOpen, SP, SQ, "output", SQ, ",", SP, SQ >>
                      \o Slice(t, i + 2, q - 1) \o << SQ, ")" >>
                      \o SubOutputPath(t, q + 1)
             ELSE << t[i] >> \o SubOutputPath(t, i + 1)

\* Lines 959-963: os.makedirs('output' not followed by a closing parenthesis
RECURSIVE SubMakedirs(_, _)
SubMakedirs(t, i) ==
    IF i > Len(t) THEN << >>
    ELSE IF /\ i + 3 <= Len(t) /\ t[i] = "os.makedirs(" /\ t[i+1] \in Quotes
            /\ t[i+2] = "output" /\ t[i+3] \in Quotes
            /\ ~(i + 4 <= Len(t) /\ t[i+4] = ")")
         THEN << "os.makedirs(", OutJoinOpen, SP, SQ, "output", SQ, ")" >>
                  \o SubMakedirs(t, i + 4)
         ELSE << t[i] >> \o SubMakedirs(t, i + 1)

\* _fix_paths_in_script (873-972) with a synthetic folder found
FixPathsInScript(script) ==
    LET a == CollapseDup(CollapseDup(script, 1), 1)
        b == SubFileName(a, "csv", 1)
        c == SubFileName(b, "xlsx", 1)
        d == SubFileName(c, "json", 1)
        e == SubFileName(d, "txt", 1)
        f == SubFileName(e, "md", 1)
        g == SubInputDir(f, 1)
        h == SubInputVar(g, "INPUT_FILE", 1)
        k == SubInputVar(h, "input_file", 1)
        l == AddScriptDir(k)
        m == SubAssignedPath(l, 1)
        n == SubBarePath(m, 1)
        o == SubOutputPath(n, 1)
        p == SubMakedirs(o, 1)
    IN  CollapseDup(p, 1)

\* The scripts: up to MaxStatements statements, one per line, with or
\* without a newline at the end.
MaxStatements == 2

MaxPasses == 2

Statements ==
    { << "df", SP, "=", SP, "read(", SQ, "data.csv", SQ, ")" >>,
      << "INPUT_FILE", SP, "=", SP, DQ, "a.bin", DQ >>,
      << "input_file", "=", SQ, "r.txt", SQ >>,
      << "open(", SQ, "input/", "a.bin", SQ, ")" >>,
      << "x", SP, "=", SP, DQ, "output/", "a.bin", DQ >>,
      << "save(", SQ, "output/", "a.bin", SQ, ")", SP, "#", SP, "done" >>,
      << "os.makedirs(", SQ, "output", SQ, ",", SP, "exist_ok=True", ")" >>,
      << "os.makedirs(", SQ, "output", SQ, ")" >>,
      << ImportOs >>,
      << ScriptDirLine >>,
      << "p", SP, "=", SP, SQ, REL, "/", "a.bin", SQ >>,
      << "open(", DQ, REL, "/", REL, "/", REL, "/", "a.bin", DQ, ")" >>,
      << "x", SP, "=", SP, "1" >> }

FixScripts ==
    { JoinLines(ss) \o tail : ss \in SeqsUpTo(Statements, MaxStatements) \ { << >> },
                              tail \in { << >>, << NL >> } }

FixInit ==
    /\ fpc = "start"
    /\ fix_input \in FixScripts
    /\ fix_output = << >>
    /\ fix_passes = 0
    /\ OnlyFix

\* Line 509: the first application, to the script as the model wrote it
FixScript ==
    /\ fpc = "start"
    /\ fpc' = "fixed"
    /\ fix_output' = FixPathsInScript(fix_input)
    /\ fix_passes' = 1
    /\ UNCHANGED << fix_input, notFixVars >>

\* The fixer applied to its own output
FixAgain ==
    /\ fpc = "fixed"
    /\ fix_passes < MaxPasses
    /\ fix_input' = fix_output
    /\ fix_output' = FixPathsInScript(fix_output)
    /\ fix_passes' = fix_passes + 1
    /\ UNCHANGED << fpc, notFixVars >>

FixNext ==
    \/ FixScript
    \/ FixAgain

SpecFix == FixInit /\ [][FixNext]_vars

\* ------------------------------------------------------------------------
\* split_job_postings, parse_job_posting, extract_job_with_llm and
\* convert_text_to_json (text_to_json.py 14-427)                 (SpecPost)
\* ------------------------------------------------------------------------
\* The rupee sign, the pound sign and the bullet are one lexeme each.
RUPEE500 == "<rupee>500"

POUND50 == "<pound>50"

BULLET == "<bullet>"

\* Lexemes whose lower-case form is "open" and "awarded" (lines 166, 325)
OpenWords == {"Open"}

AwardedWords == {"Awarded"}

\* Lexemes whose lower-case form holds "awarded" (line 170)
AwardedPhrases == {"Awarded", "OPPORTUNITY AWARDED", "Logo for awarded firm"}

\* Lexemes in which the pattern of lines 193, 213, 245 and 330 finds a
\* match: one character of the class as the file stores it (which holds the
\* dollar and the pound sign, and neither the rupee nor the euro sign),
\* then a digit.
MoneyLexemes == {"$50 USD", POUND50}

FixedPriceLexemes == {"FIXED PRICE"}

PaidOnLexemes == {"Paid on delivery"}

RequirementsHeads == {"Requirements"}

DeliverableHeads == {"Deliverables"}

IdealHeads == {"Ideal Skills and Experience"}

AcceptanceHeads == {"Acceptance Criteria"}

\* The characters of the class of lines 284 and 296 as the file stores it
\* that are lexemes here: the hyphen and the star, not the bullet.
BulletClass == {"-", "*"}

HasLexeme(line, S) == \E i \in 1..Len(line) : line[i] \in S

\* text.split('\n')
RECURSIVE SplitLines(_)
SplitLines(t) ==
    LET n == Find(t, NL)
    IN  IF n = 0 THEN << t >>
        ELSE << Slice(t, 1, n - 1) >> \o SplitLines(Tail_(t, n + 1))

\* Line 138: the stripped, non-empty lines of the stripped text
StrippedLines(t) ==
    LET raw      == SplitLines(Strip(t))
        stripped == [i \in 1..Len(raw) |-> Strip(raw[i])]
        Full(l)  == l # << >>
    IN  SelectSeq(stripped, Full)

\* The first index past the run of newlines that starts at i
NewlineRunEnd(t, i) ==
    IF \E k \in i..Len(t) : t[k] # NL
    THEN CHOOSE k \in i..Len(t) : t[k] # NL /\ \A j \in i..(k-1) : t[j] = NL
    ELSE Len(t) + 1

\* re.split of \n{3,} (lines 312-313)
RECURSIVE SplitSections(_)
SplitSections(t) ==
    LET s == Least({ i \in 1..(Len(t) - 2) : t[i] = NL /\ t[i+1] = NL /\ t[i+2] = NL })
    IN  IF s = 0 THEN << t >>
        ELSE << Slice(t, 1, s - 1) >> \o SplitSections(Tail_(t, NewlineRunEnd(t, s)))

\* A variant of line 317 that keeps the section as it is.
SectionTextRaw(section) == section

\* Line 317: section.strip()
SectionText(section) == Strip(section)

\* Lines 321-337: the section looks like a posting
LooksLikePosting(section) ==
    LET lines      == SplitLines(section)
        first_line == Strip(lines[1])
        has_status == \E i \in 2..5 :
                         /\ i <= Len(lines)
                         /\ Len(Strip(lines[i])) = 1
                         /\ Strip(lines[i])[1] \in OpenWords \cup AwardedWords
        has_budget == \E i \in 1..10 : i <= Len(lines) /\ HasLexeme(lines[i], MoneyLexemes)
    IN  /\ first_line # << >>
        /\ CharLen(first_line) < 150
        /\ (has_status \/ has_budget)

\* split_job_postings (305-341)
RECURSIVE KeepPostings(_)
KeepPostings(sections) ==
    IF sections = << >> THEN << >>
    ELSE LET section == SectionText(Head(sections))
         IN  (IF section # << >> /\ LooksLikePosting(section) THEN << section >> ELSE << >>)
                 \o KeepPostings(Tail(sections))

SplitJobPostings(t) == KeepPostings(SplitSections(t))

\* The first index of a sequence whose entry satisfies Test (0: none)
FirstIndex(lines, Test(_)) == Least({ i \in 1..Len(lines) : Test(lines[i]) })

\* The last index of a sequence whose entry satisfies Test (0: none)
LastIndex(lines, Test(_)) ==
    LET S == { i \in 1..Len(lines) : Test(lines[i]) }
    IN  IF S = {} THEN 0 ELSE Greatest(S)

IsOpenLine(line) == Len(line) = 1 /\ line[1] \in OpenWords

\* Lines 163-175: the first line, the title included, that is "open" or
\* holds "awarded" decides; without one the status stays ''.
ParseStatus(lines) ==
    LET Decides(line) == IsOpenLine(line) \/ HasLexeme(line, AwardedPhrases)
        k == FirstIndex(lines, Decides)
    IN  IF k = 0 THEN ""
        ELSE IF IsOpenLine(lines[k]) THEN "Open" ELSE "Awarded"

\* Lines 193-220: the first line with an amount that is no fixed-price
\* line; else the amount of the fixed-price line that the payment-terms
\* loop stops at.
ParseBudget(lines) ==
    LET Priced(line) == ~HasLexeme(line, FixedPriceLexemes) /\ HasLexeme(line, MoneyLexemes)
        Terms(line)  == HasLexeme(line, PaidOnLexemes) \/ HasLexeme(line, FixedPriceLexemes)
        b == FirstIndex(lines, Priced)
        p == FirstIndex(lines, Terms)
        price_line == IF p + 1 <= Len(lines) /\ HasLexeme(lines[p+1], MoneyLexemes)
                      THEN lines[p] \o << SP >> \o lines[p+1] ELSE lines[p]
        IsMoney(l) == l \in MoneyLexemes
    IN  IF b # 0 THEN lines[b]
        ELSE IF p = 0 THEN << >>
        ELSE IF HasLexeme(lines[p], PaidOnLexemes) THEN << >>
        ELSE IF HasLexeme(price_line, MoneyLexemes)
             THEN << price_line[FirstIndex(price_line, IsMoney)] >>
        ELSE << >>

\* re.sub(r'^[class]\s*', '', line) of lines 284 and 296
StripBullet(line) ==
    IF line # << >> /\ line[1] \in BulletClass
    THEN Tail_(line, SkipWS(line, 2)) ELSE line

StartsWith(line, S) == line # << >> /\ line[1] \in S

\* Lines 275-289
ParseRequirements(lines) ==
    LET IsReq(line)   == StartsWith(line, RequirementsHeads)
        IsIdeal(line) == StartsWith(line, IdealHeads)
        IsDeliv(line) == StartsWith(line, DeliverableHeads)
        req_idx   == LastIndex(lines, IsReq)
        ideal_idx == LastIndex(lines, IsIdeal)
        deliv_idx == LastIndex(lines, IsDeliv)
        req_start == IF req_idx = 0 THEN ideal_idx
                     ELSE IF ideal_idx = 0 THEN req_idx
                     ELSE IF req_idx < ideal_idx THEN req_idx ELSE ideal_idx
        req_end   == IF deliv_idx # 0 THEN deliv_idx ELSE Len(lines) + 1
        Kept(line) == /\ ~StartsWith(line, DeliverableHeads \cup AcceptanceHeads)
                      /\ CharLen(StripBullet(line)) > 3
        kept      == SelectSeq(Slice(lines, req_start + 1, req_end - 1), Kept)
    IN  IF req_start = 0 THEN << >>
        ELSE [i \in 1..Len(kept) |-> StripBullet(kept[i])]

\* Lines 292-300
ParseDeliverables(lines) ==
    LET IsDeliv(line) == StartsWith(line, DeliverableHeads)
        deliv_idx == LastIndex(lines, IsDeliv)
        Kept(line) == /\ ~StartsWith(line, AcceptanceHeads)
                      /\ StripBullet(line) # << >>
        kept      == SelectSeq(Tail_(lines, deliv_idx + 1), Kept)
    IN  IF deliv_idx = 0 THEN << >>
        ELSE [i \in 1..Len(kept) |-> StripBullet(kept[i])]

NoJob == [none |-> TRUE, title |-> << >>, status |-> "", budget |-> << >>,
          requirements |-> << >>, deliverables |-> << >>, raw_text |-> << >>]

\* parse_job_posting (125-302): the fields that the properties speak of
ParseJobPosting(t) ==
    LET lines == StrippedLines(t)
    IN  IF lines = << >> THEN NoJob
        ELSE [none |-> FALSE,
              title |-> lines[1],
              status |-> ParseStatus(lines),
              budget |-> ParseBudget(lines),
              requirements |-> ParseRequirements(lines),
              deliverables |-> ParseDeliverables(lines),
              raw_text |-> Strip(t)]

\* LLMClient.chat (llm_client.py 28-29) takes messages, model, temperature
\* and max_tokens: a call with any other keyword raises TypeError, whose
\* message names the keyword.
ChatKeywords == {"messages", "model", "temperature", "max_tokens"}

\* A client whose chat takes any keyword argument.
ChatTakesAnyKeyword(keywords) == FALSE

ChatRaises(keywords) == ~(keywords \subseteq ChatKeywords)

\* The record built from a model answer (lines 74-111): raw_text is the
\* model's own unless the answer has none.
FromModelAnswer(t, answer) ==
    [none |-> FALSE, title |-> << "<model title>" >>, status |-> "<model status>",
     budget |-> << >>, requirements |-> << >>, deliverables |-> << >>,
     raw_text |-> IF answer = "with raw_text" THEN << "<model raw_text>" >> ELSE Strip(t)]

ModelAnswers == {"with raw_text", "without raw_text"}

\* extract_job_with_llm (14-122): without the schema file the rule-based
\* parser is used (lines 27-32); with it both chat calls pass
\* response_format (lines 57 and 65) and the parser is used when both raise.
ExtractJobWithLlm(t, schema, answer) ==
    IF ~schema THEN ParseJobPosting(t)
    ELSE IF ChatRaises({"messages", "temperature", "max_tokens", "response_format"})
         THEN ParseJobPosting(t)
    ELSE FromModelAnswer(t, answer)

\* The input files: a posting, or two postings with a separator between
\* them, with or without whitespace around.
MaxBullets == 2

PlainTitle == << "Build a thing" >>

PostedLine == << "Posted 2 days ago" >>

DescriptionLine == << "Some description here" >>

BudgetLines == { << "$50 USD" >>, << RUPEE500 >>, << POUND50 >> }

RequirementLines ==
    { << "-", SP, "Do X" >>, << BULLET, SP, "Use Y" >>, << "*", "SQL" >> }

DeliverableLists ==
    { << << "-", SP, "File Y" >> >>,
      << << BULLET, SP, "File Y" >>, << "*", SP, "Do X" >> >> }

StandardPosting(title, budget, reqs, delivs) ==
    JoinLines(<< title, << "Open" >>, PostedLine, budget, DescriptionLine,
                 << "Requirements" >> >> \o reqs \o << << "Deliverables" >> >> \o delivs)

StandardParts ==
    { [kind |-> "standard", title |-> ti, budget |-> b, reqs |-> r, delivs |-> d] :
        ti \in { PlainTitle, << "Logo for awarded firm" >> },
        b \in BudgetLines,
        r \in SeqsUpTo(RequirementLines, MaxBullets) \ { << >> },
        d \in DeliverableLists }

OtherPostings ==
    { JoinLines(<< PlainTitle, << "$50 USD" >>, DescriptionLine >>),
      JoinLines(<< PlainTitle, << "OPPORTUNITY AWARDED" >>, PostedLine, DescriptionLine >>),
      JoinLines(<< << LongTitle >>, << "Open" >> >>),
      JoinLines(<< PlainTitle, DescriptionLine >>),
      JoinLines(<< PlainTitle, << "FIXED PRICE", SP, "$50 USD" >>, DescriptionLine >>),
      JoinLines(<< PlainTitle, << "Paid on delivery" >>, << "FIXED PRICE" >>,
                   << RUPEE500 >>, << >>, DescriptionLine >>),
      JoinLines(<< PlainTitle, << "Open", SP >>, << "$50 USD" >>, DescriptionLine,
                   << "Ideal Skills and Experience" >>, << "-", SP, "Do X" >>,
                   << "Deliverables" >>, << "-", SP, "File Y" >>,
                   << "Acceptance Criteria" >>, << "-", SP, "Do X" >> >>) }

Separators == { << NL, NL, NL >>, << NL, NL, NL, NL, SP, NL >> }

SecondPostings ==
    { JoinLines(<< PlainTitle, << "$50 USD" >>, DescriptionLine >>),
      JoinLines(<< PlainTitle, << "Awarded" >>, DescriptionLine >>) }

Tails == { << >>, << NL >> } \cup { sep \o q : sep \in Separators, q \in SecondPostings }

PostInit ==
    /\ cpc = "start"
    /\ \E lead \in { << >>, << SP, NL >> }, tail \in Tails :
          \/ \E parts \in StandardParts :
                /\ built_from = parts
                /\ file_content = lead \o StandardPosting(parts.title, parts.budget,
                                                     parts.reqs, parts.delivs) \o tail
          \/ \E posting \in OtherPostings :
                /\ built_from = [NotBuilt EXCEPT !.kind = "other"]
                /\ file_content = lead \o posting \o tail
    /\ job_texts = << >>
    /\ post_idx = 0
    /\ parsed_jobs = << >>
    /\ OnlyPost

\* Lines 359-363
SplitPostings ==
    /\ cpc = "start"
    /\ cpc' = "extract"
    /\ job_texts' = SplitJobPostings(file_content)
    /\ post_idx' = 1
    /\ UNCHANGED << file_content, built_from, parsed_jobs, notPostVars >>

\* Lines 369-390: one job text; the schema file can be opened or not, and
\* a record with a title is appended together with the number of the text
\* it came from.
ExtractJob ==
    /\ cpc = "extract"
    /\ post_idx <= Len(job_texts)
    /\ \E schema \in BOOLEAN, answer \in ModelAnswers :
          LET job == ExtractJobWithLlm(job_texts[post_idx], schema, answer)
          IN  parsed_jobs' = IF ~job.none /\ job.title # << >>
                      THEN Append(parsed_jobs, [no |-> post_idx, title |-> job.title,
                                         status |-> job.status, budget |-> job.budget,
                                         requirements |-> job.requirements,
                                         deliverables |-> job.deliverables,
                                         raw_text |-> job.raw_text])
                      ELSE parsed_jobs
    /\ post_idx' = post_idx + 1
    /\ UNCHANGED << cpc, file_content, built_from, job_texts, notPostVars >>

\* Lines 392-427
BuildOutput ==
    /\ cpc = "extract"
    /\ post_idx > Len(job_texts)
    /\ cpc' = "done"
    /\ UNCHANGED << file_content, built_from, job_texts, post_idx, parsed_jobs,
                    notPostVars >>

PostNext ==
    \/ SplitPostings
    \/ ExtractJob
    \/ BuildOutput

SpecPost == PostInit /\ [][PostNext]_vars

\* ------------------------------------------------------------------------
\* Specification SpecProposal: generate_proposal (proposal_generator.py
\* 13-149) for a job as parse_job_posting builds it: title, budget and the
\* lists are there and are not None, payment_terms and description may be
\* missing.
\* ------------------------------------------------------------------------
ProposalFields ==
    << "greeting", "understanding", "approach", "deliverables", "timeline", "pricing",
       "next_steps" >>

\* The value the generator supplies for a field (lines 93-99, 113-119,
\* 123-129 and 140-146): the job's list of deliverables, and a string for
\* every other field.
DefaultValue(field) ==
    IF field = "deliverables" THEN Arr(<< << "deliverable" >> >>)
    ELSE Str(<< "default" >>)

\* The fallback dicts of lines 92-100, 112-120 and 139-148.
RECURSIVE DefaultPairs(_)
DefaultPairs(n) ==
    IF n = 0 THEN << >>
    ELSE Append(DefaultPairs(n - 1),
                << << ProposalFields[n] >>, DefaultValue(ProposalFields[n]) >>)

\* A variant of setdefault that also replaces a value that is None.
SetDefaultNotNone(pairs, key, value) ==
    IF HasKey(pairs, key) /\ Get(pairs, key) # << "#null" >> THEN pairs
    ELSE Append(pairs, << << key >>, value >>)

\* dict.setdefault(key, value): the value is stored only when the key is
\* missing; a key that holds None keeps it.
SetDefault(pairs, key, value) ==
    IF HasKey(pairs, key) THEN pairs
    ELSE Append(pairs, << << key >>, value >>)

\* Lines 123-129
RECURSIVE EnsureAllFields(_, _)
EnsureAllFields(pairs, n) ==
    IF n = 0 THEN pairs
    ELSE SetDefault(EnsureAllFields(pairs, n - 1), ProposalFields[n],
                    DefaultValue(ProposalFields[n]))

\* Lines 79-86: the same fence removal as _extract_json_balanced does.
CleanedResponse(resp) == StripFences(resp)

\* Most members in one answer of the model.
MaxMembers == 2

\* The text of a member of the answer: a string (a list for the
\* deliverables) or null.
MemberText(field, kind) ==
    Field(field, IF kind = "null" THEN << "null" >>
                 ELSE IF field = "deliverables" THEN << LSQ, DQ, "a", DQ, RSQ >>
                 ELSE << DQ, "a", DQ >>)

RECURSIVE JoinMembers(_, _)
JoinMembers(idx, kinds) ==
    IF idx = << >> THEN << >>
    ELSE MemberText(ProposalFields[Head(idx)], Head(kinds))
         \o (IF Len(idx) > 1 THEN << ",", SP >> ELSE << >>)
         \o JoinMembers(Tail(idx), Tail(kinds))

\* The members of an answer: up to MaxMembers of the seven fields in
\* their order, each with a value or null.
MemberLists ==
    UNION { { JoinMembers(idx, kinds) : kinds \in [1..Len(idx) -> {"value", "null"}] } :
              idx \in { s \in SeqsUpTo(1..Len(ProposalFields), MaxMembers) :
                          \A i \in 1..(Len(s) - 1) : s[i] < s[i + 1] } }

\* An answer: the object alone, with a trailing comma, in a fence, after
\* some prose, cut off before its closing brace; or no JSON at all.
ProposalResponses ==
    UNION { { << LB >> \o b \o << RB >>,
              << LB >> \o b \o << ",", SP, RB >>,
              << FENCE, "json", NL, LB >> \o b \o << RB, NL, FENCE >>,
              << "a", SP, LB >> \o b \o << RB >>,
              << LB >> \o b } : b \in MemberLists }
    \cup { << >>, << "a" >> }

ProposalInit ==
    /\ gpc = "start"
    /\ proposal_response = << >>
    /\ proposal_parsed = << >>
    /\ proposal_from = "none"
    /\ proposal_out = << >>
    /\ OnlyProp

\* Line 75 and lines 137-149: llm.chat returns a text, or raises and the
\* handler returns its dict.
CallProposalModel ==
    /\ gpc = "start"
    /\ \/ \E r \in ProposalResponses :
              /\ proposal_response' = r
              /\ gpc' = "answered"
              /\ UNCHANGED << proposal_from, proposal_out >>
       \/ /\ proposal_out' = Append(DefaultPairs(Len(ProposalFields)),
                                    << << "error" >>, Str(<< "exception" >>) >>)
          /\ proposal_from' = "handler"
          /\ gpc' = "returned"
          /\ UNCHANGED proposal_response
    /\ UNCHANGED proposal_parsed
    /\ UNCHANGED notPropVars

\* Lines 77-120: the fences are removed, the object is cut out; without
\* one the basic proposal is returned; else the mechanical repairs and
\* json.loads, whose failure gives the fallback dict.
ParseProposal ==
    /\ gpc = "answered"
    /\ LET cut == ExtractJsonBalanced(CleanedResponse(proposal_response))
           r == JsonLoads(QuickFixes(cut))
       IN  IF cut = << >>
           THEN /\ proposal_out' = DefaultPairs(Len(ProposalFields))
                /\ proposal_from' = "basic"
                /\ gpc' = "returned"
                /\ UNCHANGED proposal_parsed
           ELSE /\ proposal_parsed' = IF r.ok THEN r.pairs
                                      ELSE DefaultPairs(Len(ProposalFields))
                /\ proposal_from' = IF r.ok THEN "model" ELSE "fallback"
                /\ gpc' = "parsed"
                /\ UNCHANGED proposal_out
    /\ UNCHANGED proposal_response
    /\ UNCHANGED notPropVars

\* Lines 122-136: the defaults, the prompt and the response are stored
\* and the dict is returned.
EnsureFields ==
    /\ gpc = "parsed"
    /\ proposal_out' =
           EnsureAllFields(proposal_parsed, Len(ProposalFields))
           \o << << << "llm_prompt" >>, Str(<< "prompt" >>) >>,
                 << << "llm_response" >>, Str(proposal_response) >> >>
    /\ gpc' = "returned"
    /\ UNCHANGED << proposal_response, proposal_parsed, proposal_from >>
    /\ UNCHANGED notPropVars

PropNext ==
    \/ CallProposalModel
    \/ ParseProposal
    \/ EnsureFields

SpecProposal == ProposalInit /\ [][PropNext]_vars

\* ------------------------------------------------------------------------
\* Specification SpecDirs: the directories _save_execution_outputs writes
\* to (task_executor.py 485-487), for two jobs of one run.  A title is a
\* sequence of characters.
\* ------------------------------------------------------------------------
\* str.replace(old, new) for one character
RECURSIVE ReplaceChar(_, _, _)
ReplaceChar(t, old, new) ==
    IF t = << >> THEN << >>
    ELSE << IF Head(t) = old THEN new ELSE Head(t) >> \o ReplaceChar(Tail(t), old, new)

\* Line 485: job.get('title', 'unknown').replace(' ', '_').replace('/', '_')
SanitiseTitle(title) == ReplaceChar(ReplaceChar(title, SP, "_"), "/", "_")

\* Line 486
OutputDir(title) == << "data/llm_outputs/", "execution_" >> \o SanitiseTitle(title)

MaxTitleLen == 2

TitleChars == {"a", SP, "/", "_"}

\* The titles of parsed jobs: non-empty (convert_text_to_json keeps a job
\* only when it has a title).
Titles == SeqsUpTo(TitleChars, MaxTitleLen) \ { << >> }

DirInit ==
    /\ dpc = "saving"
    /\ run_titles \in Titles \X Titles
    /\ save_idx = 1
    /\ dir_files = {}
    /\ OnlyDirs

\* One call of _save_execution_outputs: execute.py (lines 514-516) and
\* metadata.json (lines 634-641) are opened with mode 'w' in the job's
\* directory, which replaces what was there.
SaveJobOutputs ==
    /\ dpc = "saving"
    /\ save_idx <= Len(run_titles)
    /\ LET d == OutputDir(run_titles[save_idx])
       IN  dir_files' = { f \in dir_files : f.dir # d }
                            \cup { [dir |-> d, job |-> save_idx] }
    /\ save_idx' = save_idx + 1
    /\ UNCHANGED << dpc, run_titles >>
    /\ UNCHANGED notDirVars

\* The loop of lines 1421-1446 has ended.
FinishRun ==
    /\ dpc = "saving"
    /\ save_idx > Len(run_titles)
    /\ dpc' = "done"
    /\ UNCHANGED << run_titles, save_idx, dir_files >>
    /\ UNCHANGED notDirVars

DirNext ==
    \/ SaveJobOutputs
    \/ FinishRun

SpecDirs == DirInit /\ [][DirNext]_vars

\* ------------------------------------------------------------------------
\* Specification SpecRun: main and Pipeline.run of pipeline.py (348-412,
\* 478-548).  The three stages call a model; what each returns is drawn
\* when it is called.
\* ------------------------------------------------------------------------
\* What Pipeline.parse (lines 221-243) can return: the decoded JSON of the
\* model, which is a dict without or with a key "_parse_error" or not a
\* dict at all, or the dict of line 243 after a decoding error.
ExtractedOutputs == {"dict", "dict_with_error_key", "not_a_dict", "decode_error"}

HasParseError(ex) == ex \in {"dict_with_error_key", "decode_error"}

\* What Pipeline.assess (lines 247-302) can return.  "assessment" is there
\* when the section held valid JSON (lines 268-278), which json.loads of
\* the match of \{.*?\} makes a dict; its "feasibility" and "decision" are
\* what the model wrote.  The execution prompt is the stripped rest of the
\* response after its header (lines 292-300).
ProceedValues == {"absent", "true", "false", "null", "0", "string"}

AssessedOutputs ==
    { a \in [assessment : {"absent", "dict"}, feasibility : {"absent", "dict", "number"},
             decision : {"absent", "dict", "string"}, proceed : ProceedValues,
             prompt : {"absent", "empty", "text"}, proposal : BOOLEAN] :
        /\ a.assessment = "absent" => (a.feasibility = "absent" /\ a.decision = "absent")
        /\ a.decision # "dict" => a.proceed = "absent" }

\* Python's truth value of decision.get("proceed", False)
Truthy(v) == v \in {"true", "string"}

\* A variant of the exit code that is 0 whatever the status.
ExitCodeZero(st) == 0

\* Line 548: sys.exit(0 if result.get("status") == "completed" else 1)
ExitCode(st) == IF st = "completed" THEN 0 ELSE 1

RunInit ==
    /\ rpc = "main"
    /\ ad_extracted = "none"
    /\ ad_assessed = NotAssessed
    /\ run_status = "none"
    /\ executor_called = FALSE
    /\ run_returned = FALSE
    /\ exit_code = -1
    /\ OnlyRun

\* Lines 527-532: with --dry-run main prints the configuration and
\* returns; the process ends with exit code 0.
DryRun ==
    /\ rpc = "main"
    /\ rpc' = "dry_exit"
    /\ exit_code' = 0
    /\ UNCHANGED << ad_extracted, ad_assessed, run_status, executor_called, run_returned >>
    /\ UNCHANGED notRunVars

\* Lines 367-376: the parser stage.  The model call can raise; with
\* something that is not a dict, line 371 or line 376 raises.
ParseStage ==
    /\ rpc = "main"
    /\ \/ \E ex \in ExtractedOutputs :
              /\ ad_extracted' = ex
              /\ IF ex = "not_a_dict"
                 THEN rpc' = "raised" /\ UNCHANGED run_status
                 ELSE IF HasParseError(ex)
                 THEN rpc' = "finalize" /\ run_status' = "failed_at_parser"
                 ELSE rpc' = "parsed" /\ UNCHANGED run_status
       \/ /\ rpc' = "raised"
          /\ UNCHANGED << ad_extracted, run_status >>
    /\ UNCHANGED << ad_assessed, executor_called, run_returned, exit_code >>
    /\ UNCHANGED notRunVars

\* Lines 378-400: the assessor stage.  .get on a feasibility or a decision
\* that is not a dict raises (lines 384-385).
AssessStage ==
    /\ rpc = "parsed"
    /\ \/ \E a \in AssessedOutputs :
              /\ ad_assessed' = a
              /\ IF a.feasibility = "number" \/ a.decision = "string"
                 THEN rpc' = "raised" /\ UNCHANGED run_status
                 ELSE IF ~Truthy(a.proceed)
                 THEN rpc' = "finalize" /\ run_status' = "rejected_by_assessor"
                 ELSE IF a.prompt # "text"
                 THEN rpc' = "finalize" /\ run_status' = "missing_execution_prompt"
                 ELSE rpc' = "execute" /\ UNCHANGED run_status
       \/ /\ rpc' = "raised"
          /\ UNCHANGED << ad_assessed, run_status >>
    /\ UNCHANGED << ad_extracted, executor_called, run_returned, exit_code >>
    /\ UNCHANGED notRunVars

\* Lines 403-410: the executor stage; the status is set after the call
\* has returned.
ExecuteStage ==
    /\ rpc = "execute"
    /\ executor_called' = TRUE
    /\ \/ rpc' = "finalize" /\ run_status' = "completed"
       \/ rpc' = "raised" /\ UNCHANGED run_status
    /\ UNCHANGED << ad_extracted, ad_assessed, run_returned, exit_code >>
    /\ UNCHANGED notRunVars

\* _finalize (lines 414-445) adds the telemetry and saves the result; the
\* status is left as it is.  Writing the files can raise.
Finalize ==
    /\ rpc = "finalize"
    /\ \/ rpc' = "returned" /\ run_returned' = TRUE
       \/ rpc' = "raised" /\ UNCHANGED run_returned
    /\ UNCHANGED << ad_extracted, ad_assessed, run_status, executor_called, exit_code >>
    /\ UNCHANGED notRunVars

\* Line 548, and the interpreter's exit code 1 after an exception that
\* nothing catches.
Exit ==
    /\ rpc \in {"returned", "raised"}
    /\ exit_code' = IF rpc = "returned" THEN ExitCode(run_status) ELSE 1
    /\ rpc' = "exited"
    /\ UNCHANGED << ad_extracted, ad_assessed, run_status, executor_called, run_returned >>
    /\ UNCHANGED notRunVars

RunNext ==
    \/ DryRun
    \/ ParseStage
    \/ AssessStage
    \/ ExecuteStage
    \/ Finalize
    \/ Exit

SpecRun == RunInit /\ [][RunNext]_vars

\* ------------------------------------------------------------------------
\* Specification SpecShare: the job dictionaries as objects with identity,
\* passed through the three stages (feasibility_checker.py 448-453,
\* proposal_generator.py 210-238, task_executor.py 1412-1452).  A dict
\* holds references: dict.copy() makes a new dict with the same
\* references, and an assignment to a key changes the one dict it is
\* made on.
\* ------------------------------------------------------------------------
\* An object: a job dict (its list of requirements and its derived fields
\* are references, 0 for a missing key), a list, or a derived dict (the
\* feasibility, the proposal, the execution record) with what it says.
JobObj(title, reqs, f, p, e) ==
    [kind |-> "job", title |-> title, requirements |-> reqs, feasibility |-> f,
     proposal |-> p, execution |-> e, data |-> "none"]

DataObj(kind, data) ==
    [kind |-> kind, title |-> "none", requirements |-> 0, feasibility |-> 0,
     proposal |-> 0, execution |-> 0, data |-> data]

\* "job_copy = job": no new dict.
DictAlias(h, id) == [heap |-> h, id |-> id]

\* job.copy(): a new dict with the keys and the references of the old one.
DictCopy(h, id) == [heap |-> Append(h, h[id]), id |-> Len(h) + 1]

\* d[key] = ref
SetItem(h, id, key, ref) ==
    [h EXCEPT ![id] =
        CASE key = "feasibility" -> [@ EXCEPT !.feasibility = ref]
          [] key = "proposal"    -> [@ EXCEPT !.proposal = ref]
          [] key = "execution"   -> [@ EXCEPT !.execution = ref]]

\* job_with_x = job.copy(); job_with_x[key] = the object made last
\* (feasibility_checker.py 451-452, proposal_generator.py 221-222,
\* task_executor.py 1426-1427)
CopyAndAttach(h, id, key) ==
    LET c == DictCopy(h, id)
    IN  [heap |-> SetItem(c.heap, c.id, key, Len(h)), id |-> c.id]

\* The objects a job dict leads to, itself included.
Reach(h, id) ==
    {id} \cup ({h[id].requirements, h[id].feasibility, h[id].proposal,
                h[id].execution} \ {0})

\* Jobs in the list.
MaxListed == 2

\* The list main.py passes to the first stage: parsed jobs, each a dict of
\* its own with a list of its own.
RECURSIVE ParsedHeap(_)
ParsedHeap(n) ==
    IF n = 0 THEN << >>
    ELSE ParsedHeap(n - 1) \o << DataObj("list", "requirements"),
                                 JobObj(n, 2 * n - 1, 0, 0, 0) >>

Selected(h, id) ==
    /\ h[id].proposal # 0
    /\ h[id].feasibility # 0
    /\ h[h[id].feasibility].data = "feasible"

ShareInit ==
    /\ hpc = "check"
    /\ \E n \in 1..MaxListed :
           /\ heap = ParsedHeap(n)
           /\ stage_jobs = [k \in 1..n |-> 2 * k]
           /\ stage_entries = << [ids |-> [k \in 1..n |-> 2 * k], heap |-> ParsedHeap(n)] >>
    /\ stage_out = << >>
    /\ stage_idx = 1
    /\ OnlyShare

\* One turn of the loop of check_all_jobs_feasibility (lines 448-453):
\* check_job_feasibility returns a new dict, which is attached to a copy.
CheckTurn ==
    /\ hpc = "check"
    /\ stage_idx <= Len(stage_jobs)
    /\ \E verdict \in {"feasible", "infeasible"} :
           LET made == Append(heap, DataObj("feasibility", verdict))
               c == CopyAndAttach(made, stage_jobs[stage_idx], "feasibility")
           IN  /\ heap' = c.heap
               /\ stage_out' = Append(stage_out, [id |-> c.id, from |-> stage_jobs[stage_idx]])
    /\ stage_idx' = stage_idx + 1
    /\ UNCHANGED << hpc, stage_jobs, stage_entries >>
    /\ UNCHANGED notHeapVars

\* One turn of the loop of generate_proposals_for_feasible_jobs (lines
\* 210-238): a feasible job gets the new proposal on a copy, or is passed
\* on as it is when generate_proposal raised; the others are passed on as
\* they are.
ProposeTurn ==
    /\ hpc = "propose"
    /\ stage_idx <= Len(stage_jobs)
    /\ LET j == stage_jobs[stage_idx]
       IN  \/ /\ heap[heap[j].feasibility].data = "feasible"
              /\ LET made == Append(heap, DataObj("proposal", "written"))
                     c == CopyAndAttach(made, j, "proposal")
                 IN  /\ heap' = c.heap
                     /\ stage_out' = Append(stage_out, [id |-> c.id, from |-> j])
           \/ /\ stage_out' = Append(stage_out, [id |-> j, from |-> j])
              /\ UNCHANGED heap
    /\ stage_idx' = stage_idx + 1
    /\ UNCHANGED << hpc, stage_jobs, stage_entries >>
    /\ UNCHANGED notHeapVars

\* One turn of the first loop of execute_all_tasks, which runs over the
\* selected jobs (lines 1412-1446): execute_task returns a new record,
\* which is attached to a copy (lines 1425-1428); _save_execution_outputs
\* then writes into that record (lines 607-610) or raises, and the job
\* itself is appended as well (line 1446); when execute_task raised only
\* the job itself is appended.
ExecuteTurn ==
    /\ hpc = "execute"
    /\ stage_idx <= Len(stage_jobs)
    /\ LET j == stage_jobs[stage_idx]
       IN  IF Selected(heap, j)
           THEN \/ \E outcome \in {"completed", "failed", "save raised"} :
                       LET made == Append(heap, DataObj("execution", "completed"))
                           c == CopyAndAttach(made, j, "execution")
                           saved == [c.heap EXCEPT ![Len(heap) + 1].data =
                                        IF outcome = "failed" THEN "failed" ELSE @]
                       IN  /\ heap' = saved
                           /\ stage_out' =
                                  Append(stage_out, [id |-> c.id, from |-> j])
                                  \o IF outcome = "save raised"
                                     THEN << [id |-> j, from |-> j] >> ELSE << >>
                \/ /\ stage_out' = Append(stage_out, [id |-> j, from |-> j])
                   /\ UNCHANGED heap
           ELSE UNCHANGED << heap, stage_out >>
    /\ stage_idx' = stage_idx + 1
    /\ UNCHANGED << hpc, stage_jobs, stage_entries >>
    /\ UNCHANGED notHeapVars

\* One turn of the second loop of execute_all_tasks (lines 1449-1451): a
\* job that was not selected is appended as it is.
AddBackTurn ==
    /\ hpc = "add_back"
    /\ stage_idx <= Len(stage_jobs)
    /\ stage_out' = IF Selected(heap, stage_jobs[stage_idx]) THEN stage_out
                    ELSE Append(stage_out, [id |-> stage_jobs[stage_idx],
                                            from |-> stage_jobs[stage_idx]])
    /\ stage_idx' = stage_idx + 1
    /\ UNCHANGED << hpc, heap, stage_jobs, stage_entries >>
    /\ UNCHANGED notHeapVars

NextStage(st) ==
    CASE st = "check" -> "propose" [] st = "propose" -> "execute"
      [] st = "execute" -> "add_back" [] st = "add_back" -> "done"

\* A loop has ended: the first loop of execute_all_tasks is followed by
\* its second; a stage returns its list, which main.py (lines 72, 103,
\* 128) passes to the next stage.
PassOn ==
    /\ hpc \in {"check", "propose", "execute", "add_back"}
    /\ stage_idx > Len(stage_jobs)
    /\ hpc' = NextStage(hpc)
    /\ IF hpc \in {"execute", "add_back"}
       THEN UNCHANGED << stage_jobs, stage_entries, stage_out >>
       ELSE /\ stage_jobs' = [k \in 1..Len(stage_out) |-> stage_out[k].id]
            /\ stage_entries' =
                   Append(stage_entries,
                          [ids |-> [k \in 1..Len(stage_out) |-> stage_out[k].id],
                           heap |-> heap])
            /\ stage_out' = << >>
    /\ stage_idx' = 1
    /\ UNCHANGED heap
    /\ UNCHANGED notHeapVars

ShareNext ==
    \/ CheckTurn
    \/ ProposeTurn
    \/ ExecuteTurn
    \/ AddBackTurn
    \/ PassOn

SpecShare == ShareInit /\ [][ShareNext]_vars

\* ------------------------------------------------------------------------
\* Properties of the extraction (SpecScan)
\* ------------------------------------------------------------------------
\* Index i of t is protected by a backslash: the run of backslashes that
\* ends right before i (and starts no earlier than s) has odd length.
Escaped(t, s, i) ==
    LET k == CHOOSE k \in s..i :
                 /\ \A j \in k..(i-1) : t[j] = BS
                 /\ (k = s \/ t[k-1] # BS)
    IN  (i - k) % 2 = 1

\* Index i of t lies inside a double-quoted string opened at or after s.
InsideString(t, s, i) ==
    Cardinality({ j \in s..(i-1) : t[j] = DQ /\ ~Escaped(t, s, j) }) % 2 = 1

\* Indices in s..i holding brace c outside strings and unprotected.
BracesOutside(t, s, i, c) ==
    { j \in s..i : t[j] = c /\ ~Escaped(t, s, j) /\ ~InsideString(t, s, j) }

\* i closes the object opened at s.
ClosesAt(t, s, i) ==
    /\ i \in BracesOutside(t, s, i, RB)
    /\ Cardinality(BracesOutside(t, s, i, LB)) = Cardinality(BracesOutside(t, s, i, RB))

\* The brace matching the first "{" of t (0 when t has no "{" or it is
\* never closed).
MatchingBrace(t) ==
    LET s == Find(t, LB)
    IN  IF s = 0 THEN 0
        ELSE IF \E i \in s..Len(t) : ClosesAt(t, s, i)
             THEN CHOOSE i \in s..Len(t) :
                      ClosesAt(t, s, i) /\ \A j \in s..(i-1) : ~ClosesAt(t, s, j)
             ELSE 0

\* C6: for every valid JSON object embedded in prose and/or markdown
\* fences, extraction, the mechanical repairs and json.loads give back
\* exactly that object, every key and value unchanged.
C6_EmbeddedObjectUnchanged ==
    (xpc = "parsed" /\ embedded # << >>) =>
        (loaded.ok /\ loaded.val = JsonLoads(embedded).val)

\* C7: braces inside a double-quoted string do not change the depth and a
\* quote after a backslash does not toggle string mode: when the first "{"
\* of the text has a matching "}" outside strings, the result is the text
\* from that "{" to that "}".
C7_BalancedSubstring ==
    (xpc # "start") =>
        LET t == StripFences(text)
            m == MatchingBrace(t)
        IN  m # 0 => json_str = Slice(t, Find(t, LB), m)

\* C7 witness: a whole object is returned although one of its strings
\* holds a brace and an escaped quote.
C7_Witness ==
    /\ xpc = "extracted"
    /\ json_str = text
    /\ Len(text) > 0
    /\ MatchingBrace(text) = Len(text)
    /\ \E i \in 1..Len(text) : text[i] = RB /\ InsideString(text, 1, i)
    /\ \E i \in 1..Len(text) :
           text[i] = DQ /\ Escaped(text, 1, i) /\ InsideString(text, 1, i)

\* ------------------------------------------------------------------------
\* Properties of check_job_feasibility (SpecAssess)
\* ------------------------------------------------------------------------
\* The text the returned mapping was decoded from.
SourceText == IF result.kind = "repaired" THEN repair_text ELSE response_text

\* The indices of the values of the is_feasible fields of t (the name
\* with or without quotes).
FeasibleValues(t) ==
    { v \in 1..Len(t) :
        \E i \in 1..Len(t) : \E q \in BOOLEAN :
            FieldValueAt(t, i, "is_feasible", q) = v }

\* t states is_feasible as the boolean true and as nothing else.
StatesTrueOnly(t) ==
    /\ FeasibleValues(t) # {}
    /\ \A v \in FeasibleValues(t) : t[v] \in TrueLex

\* C2: whenever the assessment raised, or the answer of the model does
\* not state is_feasible as the boolean true without ambiguity, the
\* returned assessment has is_feasible = false.
C2_ConservativeDefault ==
    (apc = "returned" /\ (raised_at # "none" \/ ~StatesTrueOnly(SourceText))) =>
        assessment.is_feasible = FALSE

\* C3: when a step of check_job_feasibility raises (prompt building, the
\* model call, the extraction, the normalisation), the handler runs next
\* and the function returns is_feasible = false, confidence = 0.2 and a
\* reasoning that holds the message of the exception.
C3_ExceptionGivesNotFeasible ==
    /\ [](( apc = "returned" /\ raised_at # "none") =>
            /\ assessment.is_feasible = FALSE
            /\ assessment.confidence = ErrorConfidence
            /\ assessment.reasoning = << "Error during assessment: ", raised_at >>)
    /\ [][apc = "raised" => apc' = "returned"]_vars

\* C3 witness: float() of the confidence raised during the normalisation
\* of a decoded object and the call returned.
C3_Witness ==
    /\ apc = "returned"
    /\ raised_at = "normalise"
    /\ result.kind = "json"
    /\ assessment.confidence = ErrorConfidence

\* C4: _extract_and_parse_json never raises.
C4_ExtractorNeverRaises == raised_at # "extract"

NoBrace(t) == \A i \in 1..Len(t) : t[i] # LB

\* Some lexeme of t holds one of the names of L.
Mentions(t, L) == \E i \in 1..Len(t) : t[i] \in L

\* The extraction of the answer is over.
Extracted ==
    /\ apc \in {"parsed", "raised", "returned"}
    /\ raised_at \notin {"prompt", "call"}

FiveKeys(pairs) ==
    /\ Len(pairs) = 5
    /\ \A k \in {"is_feasible", "confidence", "reasoning", "estimated_tokens", "risks"} :
           HasKey(pairs, k)

\* C5: for a response text without "{" the extractor returns the result
\* of the text scraper, with all five keys, and a field the text does not
\* mention has the default false, 0.2, null, [].
C5_DocumentedDefaults ==
    (Extracted /\ NoBrace(response_text)) =>
        /\ result.kind = "scraped"
        /\ FiveKeys(result.pairs)
        /\ ~Mentions(response_text, FeasibleLex) =>
               Get(result.pairs, "is_feasible") = << "#false" >>
        /\ ~Mentions(response_text, {"confidence"}) =>
               Get(result.pairs, "confidence") = Num(<< "0", ".", "2" >>)
        /\ ~Mentions(response_text, TokensLex) =>
               Get(result.pairs, "estimated_tokens") = << "#null" >>
        /\ ~Mentions(response_text, {"risks"}) =>
               Get(result.pairs, "risks") = Arr(<< >>)

\* C5 as the code has it: for a response text without "{" no repair call
\* is made and the text goes to the text scraper, which returns a mapping
\* or raises; a mapping it returns has the five keys, and a field the text does not mention has
\* the default of the scraper: is_feasible false, confidence 0.2 (0.3 when
\* is_feasible came out true), estimated_tokens null, risks
\* ["Extracted via text parsing"].
C5_ScraperDefaults ==
    (NoBrace(response_text) /\ (apc = "scrape" \/ Extracted)) =>
        /\ llm_calls = 1 /\ repair_calls = 0
        /\ apc = "scrape" \/ result.kind = "scraped" \/ raised_at = "extract"
        /\ result.kind = "scraped" =>
               /\ FiveKeys(result.pairs)
               /\ ~Mentions(response_text, FeasibleLex) =>
                      Get(result.pairs, "is_feasible") = << "#false" >>
               /\ ~Mentions(response_text, {"confidence"}) =>
                      Get(result.pairs, "confidence") =
                          IF Get(result.pairs, "is_feasible") = << "#true" >>
                          THEN Num(<< "0", ".", "3" >>) ELSE Num(<< "0", ".", "2" >>)
               /\ ~Mentions(response_text, TokensLex) =>
                      Get(result.pairs, "estimated_tokens") = << "#null" >>
               /\ ~Mentions(response_text, {"risks"}) =>
                      Get(result.pairs, "risks") = Arr(NoRisksScraped)

\* C5 witness: a text without "{" was scraped; it says "feasible" and has
\* neither a confidence nor risks, so these two come from the defaults.
C5_Witness ==
    /\ apc = "parsed"
    /\ result.kind = "scraped"
    /\ Len(response_text) > 0
    /\ NoBrace(response_text)
    /\ Get(result.pairs, "is_feasible") = << "#true" >>
    /\ ~Mentions(response_text, {"confidence", "risks"})
    /\ Get(result.pairs, "confidence") = Num(<< "0", ".", "3" >>)

\* C8: the model is called at most twice per assessment, at most once for
\* repair; the repair call comes only after a brace-delimited candidate
\* was found and failed to decode; once a repair call was made the
\* extractor is never again about to make one.
C8_OneRepairCall ==
    /\ llm_calls <= 2
    /\ repair_calls <= 1
    /\ llm_calls - repair_calls <= 1
    /\ repair_calls = 1 =>
           /\ ExtractJsonBalanced(response_text) # << >>
           /\ ~JsonLoads(QuickFixes(ExtractJsonBalanced(response_text))).ok
           /\ apc # "repairing"

\* C8 witness: the answer to the repair prompt could not be decoded and
\* the text scraper produced the result, after two calls in all.
C8_Witness ==
    /\ apc = "returned"
    /\ llm_calls = 2
    /\ repair_calls = 1
    /\ repair_text # << >>
    /\ result.kind = "scraped"

\* ------------------------------------------------------------------------
\* Properties of the pipeline (SpecPipe)
\* ------------------------------------------------------------------------
\* The admission predicate: a feasibility with is_feasible true and a
\* confidence of at least the threshold.
Passes(job) ==
    job.has_feasibility /\ job.is_feasible = TRUE /\ ~(job.confidence < min_confidence)

\* C9: in the lists built by generate_proposals_for_feasible_jobs and by
\* execute_all_tasks a job has a proposal only if it passes the admission
\* predicate, and an execution only if it has a proposal and passes it.
C9_EnrichmentChain ==
    /\ \A k \in 1..Len(jobs_with_proposals) :
           jobs_with_proposals[k].proposal => Passes(jobs_with_proposals[k])
    /\ \A k \in 1..Len(results) :
           /\ results[k].proposal => Passes(results[k])
           /\ results[k].execution => (results[k].proposal /\ Passes(results[k]))

\* C9 witness: execute_all_tasks returned a list with an executed job
\* whose confidence equals the threshold, and with a feasible job just
\* below the threshold that got no proposal.
C9_Witness ==
    /\ ppc = "done"
    /\ \E k \in 1..Len(results) :
           results[k].execution /\ results[k].confidence = min_confidence
    /\ \E k \in 1..Len(results) :
           /\ results[k].is_feasible
           /\ results[k].confidence < min_confidence
           /\ ~results[k].proposal

\* C10: filter_feasible_jobs returns exactly the jobs that pass the
\* admission predicate, in input order.
C10_FilterExact ==
    (ppc \in {"propose", "execute", "done"}) =>
        feasible = SelectSeq(jobs_with_feasibility, Passes)

\* C10 witness: the filter returned; it kept a job whose confidence equals
\* the threshold and dropped a feasible job below the threshold and a job
\* without feasibility.
C10_Witness ==
    /\ ppc = "propose"
    /\ \E k \in 1..Len(feasible) : feasible[k].confidence = min_confidence
    /\ \E k \in 1..Len(jobs_with_feasibility) :
           /\ jobs_with_feasibility[k].is_feasible
           /\ jobs_with_feasibility[k].confidence < min_confidence
    /\ \E k \in 1..Len(jobs_with_feasibility) :
           ~jobs_with_feasibility[k].has_feasibility
    /\ Len(feasible) < Len(jobs_with_feasibility)

\* ------------------------------------------------------------------------
\* Properties of the script execution (SpecExec)
\* ------------------------------------------------------------------------
\* stderr of the first run holds 'NameError', 'ModuleNotFoundError' or
\* 'undefined'.
PatternInStderr ==
    \E k \in 1..Len(error_text) :
        error_text[k] \in {"NameError", "ModuleNotFoundError", "undefined", "Undefined"}

\* stderr reports as undefined a name that the script calls and does not
\* define: the case in which the error repair puts a stub in the script.
StubNeeded ==
    \E name \in Names :
        /\ \E k \in 1..(Len(error_text) - 3) :
               /\ error_text[k] = "NameError" /\ error_text[k+1] = ": name '"
               /\ error_text[k+2] = name /\ error_text[k+3] = "' is not defined"
        /\ \E k \in 1..Len(execute_script) : \E j \in 1..(Len(execute_script[k]) - 1) :
               execute_script[k][j] = name /\ execute_script[k][j+1] = "("
        /\ ~\E k \in 1..Len(execute_script) :
               /\ Len(execute_script[k]) >= 3
               /\ execute_script[k][1] = DefLex /\ execute_script[k][2] = name

\* C1: the script is run at most twice, and it is run a second time
\* exactly when the first run exits nonzero with 'NameError',
\* 'ModuleNotFoundError' or 'undefined' in stderr.
C1_RetryExactlyOnPattern ==
    /\ runs <= 2
    /\ epc = "done" => (runs = 2 <=> (returncode = 1 /\ PatternInStderr))

\* C1 as the code has it: the script is run at most twice; it is run a
\* second time exactly when the first run exits nonzero, stderr holds one
\* of the patterns, the error repair changed the script, and writing the
\* repaired script and installing its dependencies raised nothing; after
\* the second run nothing is repaired or run again.
C1_RetryOnlyAfterChangedRepair ==
    /\ [](/\ runs <= 2
          /\ runs = 2 =>
                 /\ returncode = 1 /\ PatternInStderr /\ StubNeeded
                 /\ repaired_script # execute_script /\ ~retry_raised
          /\ (epc = "done" /\ returncode = 1 /\ PatternInStderr /\ StubNeeded
                 /\ ~retry_raised) => runs = 2)
    /\ [][runs = 2 => /\ runs' = 2
                      /\ execute_script' = execute_script
                      /\ repaired_script' = repaired_script]_vars

\* C1 witness: the repaired script was run, the second run failed too,
\* and the call went on to record the failure.
C1_Witness ==
    /\ epc = "done"
    /\ runs = 2
    /\ ~script_success
    /\ script_error = "stderr"
    /\ status = "failed"

\* stderr of the first run reports name as undefined.
NameErrorFor(name) ==
    \E k \in 1..(Len(error_text) - 3) :
        /\ error_text[k] = "NameError" /\ error_text[k+1] = ": name '"
        /\ error_text[k+2] = name /\ error_text[k+3] = "' is not defined"

\* The places where script calls name: name followed by "(" and not
\* preceded by "def ".
CallsOf(script, name) ==
    { c \in (1..Len(script)) \X (1..4) :
        /\ c[2] < Len(script[c[1]])
        /\ script[c[1]][c[2]] = name /\ script[c[1]][c[2] + 1] = "("
        /\ ~(c[2] > 1 /\ script[c[1]][c[2] - 1] = DefLex) }

\* The lines of script that start a definition of name.
DefsOf(script, name) ==
    { k \in 1..Len(script) :
        /\ Len(script[k]) >= 3
        /\ script[k][1] = DefLex /\ script[k][2] = name /\ script[k][3] = "(" }

\* Some definition of name stands on a line before every call of name.
DefinedBeforeUse(script, name) ==
    \E d \in DefsOf(script, name) : \A c \in CallsOf(script, name) : d < c[1]

\* C12: when the model call of execute_task raised, the record that
\* _save_execution_outputs leaves has status 'failed', success false and
\* an error string; such a job is never recorded as completed.
C12_ModelFailureRecordedFailed ==
    (task_outcome = "raised" /\ epc \in {"done", "propagated"}) =>
        /\ status = "failed"
        /\ rec_success = FALSE
        /\ rec_error # "none"

\* C13: when the first run or the retry run times out, the record ends
\* with success false, the error 'Script execution timed out after 5
\* minutes' and status 'failed', and no run is started after the timeout.
C13_TimeoutRecorded ==
    /\ []((run_outcome = "timeout" /\ epc = "done") =>
              /\ rec_success = FALSE
              /\ rec_error = "timeout"
              /\ status = "failed")
    /\ [][run_outcome = "timeout" =>
              /\ runs' = runs
              /\ run_outcome' = "timeout"
              /\ epc' \in {"finished", "done"}]_vars

\* C13 witness: the retry run timed out and the record was updated.
C13_Witness ==
    /\ epc = "done"
    /\ runs = 2
    /\ run_outcome = "timeout"
    /\ rec_error = "timeout"

\* C15: when the first run exits with code 1 and stderr reports f, which
\* the script calls, as undefined, the repaired script has a definition of
\* f on a line before every call of f, and it is run (the second run).
C15_StubBeforeCallAndRetry ==
    (/\ epc = "done"
     /\ returncode = 1
     /\ NameErrorFor("f")
     /\ CallsOf(execute_script, "f") # {}) =>
        /\ runs = 2
        /\ DefinedBeforeUse(repaired_script, "f")

\* C17: _install_script_dependencies returns normally for every script,
\* so no exception of it leaves _save_execution_outputs before the script
\* is run.
C17_InstallNeverRaises == epc # "propagated"

\* ------------------------------------------------------------------------
\* Properties of the two loops (SpecBatch)
\* ------------------------------------------------------------------------
\* C11: whatever fails for a job (the model call, the script text, the
\* exit code, a timeout, the installation of dependencies), the loops go
\* on: execute_all_tasks returns, and by then every job of the list was
\* assessed, execute_task was called for every selected job in order, and
\* every selected job has a record with status 'completed' or 'failed'.
C11_BatchNeverAborts ==
    /\ <>(bpc = "returned")
    /\ [](bpc = "returned" =>
              /\ Len(assessments) = batch_n
              /\ attempts = to_execute
              /\ \A j \in 1..Len(to_execute) :
                     \E k \in 1..Len(batch_results) :
                         /\ batch_results[k].job = to_execute[j]
                         /\ batch_results[k].status \in {"completed", "failed"})

\* C11 witness: the function returned after a job whose model call raised
\* and whose script could not be saved, with a later job executed.
C11_Witness ==
    /\ bpc = "returned"
    /\ Len(to_execute) >= 2
    /\ \E k \in 1..(Len(batch_results) - 1) :
           /\ batch_results[k].job = to_execute[1]
           /\ batch_results[k + 1].job = to_execute[1]
           /\ batch_results[k + 1].status = "none"
    /\ \E k \in 1..Len(batch_results) :
           batch_results[k].job = to_execute[2] /\ batch_results[k].status = "failed"


\* ------------------------------------------------------------------------
\* Properties of execute_task (SpecTask)
\* ------------------------------------------------------------------------
\* A text value that holds at least one character
NonEmptyText(v) == v # << >> /\ v[1] = "#str" /\ Len(v) > 2

\* C14: whenever the model call returned, execute_task returns a record
\* whose execute_script is a non-empty text; the placeholder script is used
\* only when the response holds no code fence at all.
C14_ScriptAlwaysExtracted ==
    (tpc = "returned" /\ task_raised # "chat") =>
        /\ task_record.has_script
        /\ NonEmptyText(task_record.script)
        /\ (task_record.source = "placeholder" =>
               \A i \in 1..Len(task_response) : task_response[i] # FENCE)


\* ------------------------------------------------------------------------
\* Properties of the path fixer (SpecFix)
\* ------------------------------------------------------------------------
\* C16: applying the path fixer to its own output never yields the
\* relative path twice in a row, and gives its input back unchanged:
\* fix(fix(s)) = fix(s).
C16_FixerIdempotent ==
    (fpc = "fixed" /\ fix_passes >= 2) =>
        /\ fix_output = fix_input
        /\ \A i \in 1..(Len(fix_output) - 2) :
               ~(fix_output[i] = REL /\ fix_output[i+1] = "/" /\ fix_output[i+2] = REL)


\* ------------------------------------------------------------------------
\* Properties of the conversion of postings (SpecPost)
\* ------------------------------------------------------------------------
\* C18: every job record in the output of convert_text_to_json has a
\* status that is one of Open, Awarded, Unknown.
C18_StatusInEnum ==
    \A k \in 1..Len(parsed_jobs) : parsed_jobs[k].status \in {"Open", "Awarded", "Unknown"}

\* C19: the raw_text of every job in the output equals, lexeme for lexeme,
\* the segment of split_job_postings that the job was produced from.
C19_RawTextIsSegment ==
    \A k \in 1..Len(parsed_jobs) : parsed_jobs[k].raw_text = job_texts[parsed_jobs[k].no]

C19_Witness ==
    /\ cpc = "done"
    /\ Len(parsed_jobs) = 2
    /\ parsed_jobs[2].raw_text = job_texts[2]
    /\ file_content[1] = SP
    /\ \E i \in 1..(Len(file_content) - 1) : file_content[i] = NL /\ file_content[i+1] = SP

\* A line without its bullet marker, whichever marker it is, and without
\* the blanks after the marker
Unbulleted(line) ==
    IF line[1] \in {"-", "*", BULLET}
    THEN SubSeq(line, (CHOOSE k \in 2..Len(line) : line[k] # SP /\ \A j \in 2..(k-1) : line[j] = SP),
                Len(line))
    ELSE line

\* C20: a posting made of a title, an Open line, a posted line, a budget
\* line with a currency amount, a description, a Requirements header with
\* its lines and a Deliverables header with its lines is parsed to status
\* Open, the budget line as budget, and every line under each header,
\* without its bullet marker and in order, as requirements and deliverables.
C20_StandardPostingParsed ==
    (cpc = "done" /\ built_from.kind = "standard") =>
        /\ Len(parsed_jobs) >= 1
        /\ parsed_jobs[1].status = "Open"
        /\ parsed_jobs[1].budget = built_from.budget
        /\ parsed_jobs[1].requirements =
               [i \in 1..Len(built_from.reqs) |-> Unbulleted(built_from.reqs[i])]
        /\ parsed_jobs[1].deliverables =
               [i \in 1..Len(built_from.delivs) |-> Unbulleted(built_from.delivs[i])]


\* ------------------------------------------------------------------------
\* Further properties of check_job_feasibility (SpecAssess)
\* ------------------------------------------------------------------------
\* C21: the reasoning of every assessment that check_job_feasibility
\* returns holds no newline, whichever path produced it.
C21_ReasoningSingleLine ==
    apc = "returned" =>
        \A i \in 1..Len(assessment.reasoning) : assessment.reasoning[i] # NL


\* C26: a repair response from which the balanced extraction and the
\* mechanical repairs give a decodable object yields that object as the
\* result, not the text scraper's.
C26_RepairResponseSameSteps ==
    (/\ apc \in {"parsed", "returned"}
     /\ repair_calls = 1
     /\ repair_text # << >>
     /\ JsonLoads(QuickFixes(ExtractJsonBalanced(repair_text))).ok) =>
        /\ result.kind = "repaired"
        /\ result.pairs = JsonLoads(QuickFixes(ExtractJsonBalanced(repair_text))).pairs


\* ------------------------------------------------------------------------
\* Further properties of the two loops (SpecBatch)
\* ------------------------------------------------------------------------
\* C28: the list that execute_all_tasks returns holds every input job
\* exactly once.
C28_EveryJobOnce ==
    bpc = "returned" =>
        /\ Len(batch_results) = batch_n
        /\ \A k \in 1..batch_n :
               Cardinality({ i \in 1..Len(batch_results) : batch_results[i].job = k }) = 1


\* ------------------------------------------------------------------------
\* Further properties of _save_execution_outputs (SpecExec)
\* ------------------------------------------------------------------------
\* C29: when _save_execution_outputs has returned, the record's status is
\* 'completed' exactly when its success flag is true, a true success flag
\* comes with no error, and the flag is true only if the last run of the
\* script exited with code 0.
C29_RecordConsistent ==
    epc = "done" =>
        /\ (status = "completed") <=> rec_success
        /\ rec_success => rec_error = "none"
        /\ rec_success => (runs >= 1 /\ run_outcome = "exit0")


\* ------------------------------------------------------------------------
\* Order of the stages of one job (SpecExec)
\* ------------------------------------------------------------------------

StageNames(trace) == [i \in 1..Len(trace) |-> trace[i].stage]

FullStages ==
    << "prompt", "model_call", "extract", "fix_paths", "repair_imports", "write",
       "install", "run" >>

\* C25: when the work on a job has ended, its stages have occurred in the
\* fixed order prompt, model call, extraction, path fixing, import repair,
\* write, dependency installation, execution, none of them skipped and
\* path fixing done once, followed at most by the write, installation and
\* execution of one retry; and every execution comes directly after the
\* installation of the dependencies of the very script text it runs.
C25_StagesInOrder ==
    epc \in {"done", "propagated"} =>
        /\ StageNames(stages) \in
               { FullStages, FullStages \o << "write", "install", "run" >> }
        /\ \A i \in 1..Len(stages) :
               stages[i].stage = "run" =>
                   /\ i > 1
                   /\ stages[i - 1].stage = "install"
                   /\ stages[i - 1].script = stages[i].script

\* A job whose script imports pandas in an interpreter without pandas:
\* the installation raised and the script was never executed.
C25_ExecutionSkipped ==
    ~(/\ epc = "propagated"
      /\ StageNames(stages) =
             << "prompt", "model_call", "extract", "fix_paths", "repair_imports",
                "write" >>)

\* What does hold of the stages that are reached: path fixing happens at
\* most once and before any execution, and every execution, the retry
\* included, directly follows the installation for the text it runs.
C25_ReachedStagesOrdered ==
    /\ Cardinality({ i \in 1..Len(stages) : stages[i].stage = "fix_paths" }) <= 1
    /\ \A i \in 1..Len(stages) :
           stages[i].stage = "run" =>
               /\ i > 1
               /\ stages[i - 1].stage = "install"
               /\ stages[i - 1].script = stages[i].script
               /\ \E k \in 1..(i - 1) : stages[k].stage = "fix_paths"


\* ------------------------------------------------------------------------
\* The model-based extraction with the repository's client (SpecPost)
\* ------------------------------------------------------------------------

SameJob(job, parsed) ==
    /\ ~parsed.none
    /\ job.title = parsed.title
    /\ job.status = parsed.status
    /\ job.budget = parsed.budget
    /\ job.requirements = parsed.requirements
    /\ job.deliverables = parsed.deliverables
    /\ job.raw_text = parsed.raw_text

\* C30: with the repository's LLMClient both chat calls of
\* extract_job_with_llm raise, so that whatever the model would have
\* answered and whether or not the schema file is there, the function
\* returns what parse_job_posting returns for the text, and every job
\* that convert_text_to_json collected is the rule-based parse of its text.
C30_AlwaysRuleBased ==
    /\ \A i \in 1..Len(job_texts) : \A schema \in BOOLEAN, answer \in ModelAnswers :
           ExtractJobWithLlm(job_texts[i], schema, answer) = ParseJobPosting(job_texts[i])
    /\ \A i \in 1..Len(parsed_jobs) :
           SameJob(parsed_jobs[i], ParseJobPosting(job_texts[parsed_jobs[i].no]))

\* A job has been collected, the schema file being there: both chat calls
\* were made with response_format and raised.
C30_Witness ==
    /\ cpc = "extract"
    /\ Len(parsed_jobs) >= 1
    /\ ChatRaises({"messages", "temperature", "max_tokens", "response_format"})
    /\ \A answer \in ModelAnswers :
           SameJob(parsed_jobs[1],
                   ExtractJobWithLlm(job_texts[parsed_jobs[1].no], TRUE, answer))


\* ------------------------------------------------------------------------
\* The fields of a proposal (SpecProposal)
\* ------------------------------------------------------------------------

\* C22: every proposal that generate_proposal returns has all seven
\* fields, each with a value that is not None, whatever the model
\* answered and when the model call raised.
C22_SevenFieldsNonNull ==
    gpc = "returned" =>
        \A n \in 1..Len(ProposalFields) :
            /\ HasKey(proposal_out, ProposalFields[n])
            /\ Get(proposal_out, ProposalFields[n]) # << "#null" >>

\* What does hold: all seven keys are there in every returned proposal.
C22_SevenFieldsPresent ==
    gpc = "returned" =>
        \A n \in 1..Len(ProposalFields) : HasKey(proposal_out, ProposalFields[n])


\* ------------------------------------------------------------------------
\* The output directories of a run (SpecDirs)
\* ------------------------------------------------------------------------

\* C23: when the run has ended, any two of its jobs with distinct titles
\* have distinct output directories, and the directory of each still
\* holds that job's own execute.py and metadata.json.
C23_NoDirectoryCollision ==
    dpc = "done" =>
        \A i, j \in 1..Len(run_titles) :
            (i # j /\ run_titles[i] # run_titles[j]) =>
                /\ OutputDir(run_titles[i]) # OutputDir(run_titles[j])
                /\ [dir |-> OutputDir(run_titles[i]), job |-> i] \in dir_files


\* ------------------------------------------------------------------------
\* Status and exit code of a pipeline run (SpecRun)
\* ------------------------------------------------------------------------

\* The three conditions of the executor stage.
MayExecute ==
    /\ ad_extracted # "none" /\ ~HasParseError(ad_extracted)
    /\ Truthy(ad_assessed.proceed)
    /\ ad_assessed.prompt = "text"

OwnField(n) == << "feasibility", "proposal", "execution" >>[n]

\* C27: every job dict a stage was called with, and every object it
\* leads to, is still what it was when the stage was called; and every
\* job in the list a stage builds has the title, the requirements and the
\* derived fields of the job it was made from, except for the one field
\* the stage attaches.
C27_InputsUnchanged ==
    /\ \A n \in 1..Len(stage_entries) :
           \A k \in 1..Len(stage_entries[n].ids) :
               \A x \in Reach(stage_entries[n].heap, stage_entries[n].ids[k]) :
                   heap[x] = stage_entries[n].heap[x]
    /\ \A k \in 1..Len(stage_out) :
           LET made == heap[stage_out[k].id]
               orig == stage_entries[Len(stage_entries)].heap[stage_out[k].from]
               own  == OwnField(Len(stage_entries))
           IN  /\ made.title = orig.title
               /\ made.requirements = orig.requirements
               /\ own # "feasibility" => made.feasibility = orig.feasibility
               /\ own # "proposal" => made.proposal = orig.proposal
               /\ own # "execution" => made.execution = orig.execution

\* All three stages have run, a job carries all three derived fields, and
\* its execution record was written into after it was attached.
C27_Witness ==
    /\ hpc = "done"
    /\ \E k \in 1..Len(stage_out) :
           /\ heap[stage_out[k].id].feasibility # 0
           /\ heap[stage_out[k].id].proposal # 0
           /\ heap[stage_out[k].id].execution # 0
           /\ heap[heap[stage_out[k].id].execution].data = "failed"

====
